---- MODULE Spec2Model ----
(***************************************************************************)
(* Model of the import-content-type plugin service                         *)
(* (src/plugins/import-content-type/server/src/services/service.ts):       *)
(* importData and the per-record pipeline processObjectForImages ->        *)
(* sanitizeRecordBeforeCreate -> entityService.create.                     *)
(*                                                                         *)
(* JSON values are tagged records [t, v]; strings are sequences of tokens  *)
(* so that URL parsing and suffix tests are computed, not assumed.         *)
(*                                                                         *)
(* Spec and SpecRecord follow an import; SpecLoop, SpecDownload,           *)
(* SpecUpload and SpecClassify follow the batch loop, one downloadImage    *)
(* call, one uploadFileToStrapiMediaLibrary call and one isImageUrl call   *)
(* on their own; SpecHttp follows one request to an import route of        *)
(* controllers/controller.ts through the import it starts.                 *)
(***************************************************************************)
EXTENDS Integers, Sequences, FiniteSets, TLC

\* ------------------------------------------------------------------------
\* Bounds of the model
\* ------------------------------------------------------------------------
\* Longest input array that is enumerated.
MaxRecords == 3
\* Most records with images in an input array of several records.
MaxImageRecords == 1

\* ------------------------------------------------------------------------
\* JSON values
\* ------------------------------------------------------------------------
Null == [t |-> "null", v |-> 0]
Str(s) == [t |-> "str", v |-> s]
Num(n) == [t |-> "num", v |-> n]
Bool(b) == [t |-> "bool", v |-> b]
Arr(s) == [t |-> "arr", v |-> s]
Obj(f) == [t |-> "obj", v |-> f]

\* JavaScript truthiness (the `!x` and `x &&` tests of the source).
Truthy(x) ==
  CASE x.t = "null" -> FALSE
    [] x.t = "bool" -> x.v
    [] x.t = "num" -> x.v # 0
    [] x.t = "str" -> x.v # <<>>
    [] OTHER -> TRUE

\* `value && typeof value === 'object'` (arrays included, null excluded).
IsObjectLike(x) == x.t \in {"obj", "arr"}

\* `'key' in value` for a value that is object-like; an array has no such key.
HasKey(x, key) == x.t = "obj" /\ key \in DOMAIN x.v

\* ------------------------------------------------------------------------
\* URL classifier.  A string is a sequence of tokens: scheme, authority,
\* path segments, then optionally "?" and query tokens.
\* ------------------------------------------------------------------------
SchemeTokens == {"https:", "http:", "HTTP:"}
AuthorityTokens == {"//ex.com", "//x"}

\* toLowerCase on a token.
ToLowerCase(tok) ==
  CASE tok = ".PNG" -> ".png"
    [] tok = ".JPG" -> ".jpg"
    [] tok = "HTTP:" -> "http:"
    [] OTHER -> tok

\* new URL(str) succeeds: an absolute URL with a scheme and an authority.
isUrl(s) == Len(s) >= 2 /\ s[1] \in SchemeTokens /\ s[2] \in AuthorityTokens

\* First position of the "?" token, or Len(s) + 1 when there is none.
QueryStart(s) ==
  IF \E i \in 1..Len(s) : s[i] = "?"
    THEN CHOOSE i \in 1..Len(s) : s[i] = "?" /\ \A j \in 1..(i - 1) : s[j] # "?"
    ELSE Len(s) + 1

\* The tokens that begin with a slash.
SlashTokens == {"/p", "/a", "/doc", "/notes"} \cup AuthorityTokens

\* First position after the authority, and before the query, of a token that
\* begins with a slash, or QueryStart(s) when there is none: the tokens
\* before it are part of the host.
PathStart(s) ==
  LET slashes == {i \in 3..(QueryStart(s) - 1) : s[i] \in SlashTokens}
  IN  IF slashes = {} THEN QueryStart(s)
      ELSE CHOOSE i \in slashes : \A j \in slashes : i <= j

\* new URL(url).pathname: the tokens from the first slash after the
\* authority up to the query.
Pathname_WithQuery(s) == SubSeq(s, PathStart(s), Len(s))

Pathname(s) == SubSeq(s, PathStart(s), QueryStart(s) - 1)

imageExtensions == {".jpg", ".jpeg", ".png", ".gif", ".webp", ".svg", ".bmp"}

isImageUrl(s) ==
  /\ isUrl(s)
  /\ LET urlPath == [i \in 1..Len(Pathname(s)) |-> ToLowerCase(Pathname(s)[i])]
     IN  Len(urlPath) > 0 /\ urlPath[Len(urlPath)] \in imageExtensions

\* ------------------------------------------------------------------------
\* Image retriever: what downloadImage computes from the URL and the response
\* ------------------------------------------------------------------------
\* The tokens that are a file extension (a dot and a suffix).
ExtensionTokens ==
  {".jpg", ".jpeg", ".png", ".gif", ".webp", ".svg", ".bmp", ".JPG", ".PNG", ".txt"}

\* path.extname(urlPath): the extension that ends the path, or "".
extname(urlPath) ==
  IF Len(urlPath) > 0 /\ urlPath[Len(urlPath)] \in ExtensionTokens
    THEN urlPath[Len(urlPath)]
    ELSE ""

\* mime.lookup(extension), which compares in lower case; "" stands for false.
mimeLookup(extension) ==
  CASE ToLowerCase(extension) \in {".jpg", ".jpeg"} -> <<"image/", "jpeg">>
    [] ToLowerCase(extension) = ".png" -> <<"image/", "png">>
    [] ToLowerCase(extension) = ".gif" -> <<"image/", "gif">>
    [] ToLowerCase(extension) = ".webp" -> <<"image/", "webp">>
    [] ToLowerCase(extension) = ".svg" -> <<"image/", "svg+xml">>
    [] ToLowerCase(extension) = ".bmp" -> <<"image/", "bmp">>
    [] ToLowerCase(extension) = ".txt" -> <<"text/", "plain">>
    [] OTHER -> <<>>

\* Lines 90-95 and 109-114: the descriptor returned for length bytes fetched
\* from url (a string that new URL accepts).  "uuid" stands for uuidv4().
FileData(url, length) ==
  LET extension == IF extname(Pathname(url)) # "" THEN extname(Pathname(url)) ELSE ".jpg"
      mimeType == IF mimeLookup(extension) # <<>> THEN mimeLookup(extension)
                  ELSE <<"image/", "jpeg">>
  IN  [data |-> length, name |-> <<"uuid", extension>>, type |-> mimeType, size |-> length]

\* ------------------------------------------------------------------------
\* Object image resolver
\* ------------------------------------------------------------------------
\* A path names a position inside a record: property steps and array steps.
Key(k) == [k |-> k, i |-> 0]
Idx(n) == [k |-> "", i |-> n]

\* The value at position p of v.
RECURSIVE ValueAt(_, _)
ValueAt(v, p) ==
  IF p = <<>> THEN v
  ELSE IF Head(p).i = 0 THEN ValueAt(v.v[Head(p).k], Tail(p))
  ELSE ValueAt(v.v[Head(p).i], Tail(p))

\* Position p exists in v.
RECURSIVE HasPosition(_, _)
HasPosition(v, p) ==
  IF p = <<>> THEN TRUE
  ELSE IF Head(p).i = 0
    THEN v.t = "obj" /\ Head(p).k \in DOMAIN v.v /\ HasPosition(v.v[Head(p).k], Tail(p))
    ELSE v.t = "arr" /\ Head(p).i \in 1..Len(v.v) /\ HasPosition(v.v[Head(p).i], Tail(p))

\* The media reference written by the resolver.
MediaReference_BareId(id) == Num(id)

MediaReference(id) == Obj([connect |-> Arr(<<Num(id)>>)])

\* Line 309: a property value that is a string and an image URL.
IsImageString(x) == x.t = "str" /\ isImageUrl(x.v)

\* Lines 335-348: a property value that is an object whose url is an image URL.
IsImageObject_AnyUrl(x) ==
  IsObjectLike(x) /\ HasKey(x, "url") /\ Truthy(x.v["url"]) /\ x.v["url"].t = "str"

IsImageObject(x) ==
  /\ IsObjectLike(x)
  /\ HasKey(x, "url")
  /\ Truthy(x.v["url"])
  /\ x.v["url"].t = "str"
  /\ isImageUrl(x.v["url"].v)

IsImageLeaf(x) == IsImageString(x) \/ IsImageObject(x)

\* The URL that is downloaded for an image leaf (lines 313 and 351).
LeafUrl(value) == IF value.t = "str" THEN value.v ELSE value.v["url"].v

\* `value.key` of the source: undefined (modelled by null) when it is missing.
Member(value, key) == IF HasKey(value, key) THEN value.v[key] ELSE Null

\* Lines 317 and 356-358: the second argument of the upload.  A string leaf
\* passes none (the parameter defaults to null); an object leaf passes
\* objWithUrl.caption || objWithUrl.alt || objWithUrl.name || fileData.name.
CaptionHint_NamePriority(value, fileData) ==
  IF value.t = "str" THEN Null
  ELSE IF Truthy(Member(value, "name")) THEN Member(value, "name")
  ELSE IF Truthy(Member(value, "alt")) THEN Member(value, "alt")
  ELSE IF Truthy(Member(value, "caption")) THEN Member(value, "caption")
  ELSE Str(fileData.name)

CaptionHint(value, fileData) ==
  IF value.t = "str" THEN Null
  ELSE IF Truthy(Member(value, "caption")) THEN Member(value, "caption")
  ELSE IF Truthy(Member(value, "alt")) THEN Member(value, "alt")
  ELSE IF Truthy(Member(value, "name")) THEN Member(value, "name")
  ELSE Str(fileData.name)

\* Lines 316-329 and 354-377: the value left in the property once download
\* and upload have settled; uploadedId is 0 when either of them failed.
Replacement_AlwaysReference(value, uploadedId) == MediaReference(uploadedId)

Replacement(value, uploadedId) ==
  IF uploadedId # 0 THEN MediaReference(uploadedId) ELSE value

\* The positions at which processObjectForImages downloads and uploads.
RECURSIVE ImageLeaves(_, _)
ImageLeaves(obj, pre) ==
  IF ~Truthy(obj) \/ ~IsObjectLike(obj) THEN {}
  ELSE IF obj.t = "arr"
    THEN UNION {ImageLeaves(obj.v[i], Append(pre, Idx(i))) : i \in 1..Len(obj.v)}
    ELSE UNION {LET value == obj.v[key]
                    p == Append(pre, Key(key))
                IN  IF IsImageLeaf(value) THEN {p}
                    ELSE IF IsObjectLike(value) THEN ImageLeaves(value, p)
                    ELSE {}
                : key \in DOMAIN obj.v}

\* processObjectForImages(obj) where uploaded[p] is the id of the file that
\* the upload at position p returned, or 0 when download or upload failed.
RECURSIVE ResolveAt(_, _, _)
ResolveAt(obj, pre, uploaded) ==
  IF ~Truthy(obj) \/ ~IsObjectLike(obj) THEN obj
  ELSE IF obj.t = "arr"
    THEN Arr([i \in 1..Len(obj.v) |-> ResolveAt(obj.v[i], Append(pre, Idx(i)), uploaded)])
    ELSE Obj([key \in DOMAIN obj.v |->
           LET value == obj.v[key]
               p == Append(pre, Key(key))
           IN  IF IsImageLeaf(value)
                 THEN Replacement(value, uploaded[p])
               ELSE IF IsObjectLike(value) THEN ResolveAt(value, p, uploaded)
               ELSE value])

processObjectForImages(obj, uploaded) == ResolveAt(obj, <<>>, uploaded)

\* ------------------------------------------------------------------------
\* Record sanitizer
\* ------------------------------------------------------------------------
\* Lines 483-489: connect is an empty array.
IsEmptyReference(value) ==
  /\ Truthy(value)
  /\ IsObjectLike(value)
  /\ HasKey(value, "connect")
  /\ value.v["connect"].t = "arr"
  /\ Len(value.v["connect"].v) = 0

\* Lines 495-500: connect is not an array, or has a falsy element.
IsMalformedReference_ListsOnly(value) ==
  /\ Truthy(value)
  /\ IsObjectLike(value)
  /\ HasKey(value, "connect")
  /\ value.v["connect"].t = "arr"
  /\ \E i \in 1..Len(value.v["connect"].v) : ~Truthy(value.v["connect"].v[i])

IsMalformedReference(value) ==
  /\ Truthy(value)
  /\ IsObjectLike(value)
  /\ HasKey(value, "connect")
  /\ \/ value.v["connect"].t # "arr"
     \/ \E i \in 1..Len(value.v["connect"].v) : ~Truthy(value.v["connect"].v[i])

RECURSIVE sanitizeRecordBeforeCreate(_)
\* A pass that goes into the values of an object only if it removed none.
sanitizeRecordBeforeCreate_OneLevel(record) ==
  IF ~Truthy(record) \/ ~IsObjectLike(record) THEN record
  ELSE IF record.t = "arr"
    THEN Arr([i \in 1..Len(record.v) |-> sanitizeRecordBeforeCreate(record.v[i])])
    ELSE LET kept == {key \in DOMAIN record.v :
                        /\ ~IsEmptyReference(record.v[key])
                        /\ ~IsMalformedReference(record.v[key])}
         IN  Obj([key \in kept |->
               IF kept = DOMAIN record.v /\ IsObjectLike(record.v[key])
                 THEN sanitizeRecordBeforeCreate(record.v[key])
                 ELSE record.v[key]])

sanitizeRecordBeforeCreate_Shallow(record) ==
  IF ~Truthy(record) \/ record.t # "obj" THEN record
  ELSE Obj([key \in {k \in DOMAIN record.v :
                       ~IsEmptyReference(record.v[k]) /\ ~IsMalformedReference(record.v[k])}
            |-> record.v[key]])

sanitizeRecordBeforeCreate(record) ==
  IF ~Truthy(record) \/ ~IsObjectLike(record) THEN record
  ELSE IF record.t = "arr"
    THEN Arr([i \in 1..Len(record.v) |-> sanitizeRecordBeforeCreate(record.v[i])])
    ELSE LET kept == {key \in DOMAIN record.v :
                        /\ ~IsEmptyReference(record.v[key])
                        /\ ~IsMalformedReference(record.v[key])}
         IN  Obj([key \in kept |->
               IF Truthy(record.v[key]) /\ IsObjectLike(record.v[key])
                 THEN sanitizeRecordBeforeCreate(record.v[key])
                 ELSE record.v[key]])

\* ------------------------------------------------------------------------
\* The caller's objects.  processObjectForImages and sanitizeRecordBeforeCreate
\* assign and delete properties of `result`; what the object they were given
\* holds afterwards depends on what `result` is.
\* ------------------------------------------------------------------------
\* Line 304: `const result = { ...obj }`.  obj after the properties of result
\* were assigned: result is a new object, so obj keeps its own.
CopyOfObj_Alias(obj, result) == result

CopyOfObj(obj, result) == obj

\* Line 478: `const result = { ...record }`, in the same way.
CopyOfRecord_Alias(record, result) == result

CopyOfRecord(record, result) == record

\* Lines 294-391: obj after processObjectForImages(obj) has returned.
\* Array.map builds a new array (line 299); the items, and the values of obj
\* that the resolver goes into (line 385), are the caller's own objects; an
\* image value is only read.
RECURSIVE AfterResolve(_, _, _)
AfterResolve(obj, pre, uploaded) ==
  IF ~Truthy(obj) \/ ~IsObjectLike(obj) THEN obj
  ELSE IF obj.t = "arr"
    THEN Arr([i \in 1..Len(obj.v) |-> AfterResolve(obj.v[i], Append(pre, Idx(i)), uploaded)])
    ELSE CopyOfObj(
           Obj([key \in DOMAIN obj.v |->
             LET value == obj.v[key]
                 p == Append(pre, Key(key))
             IN  IF IsImageLeaf(value) THEN value
                 ELSE IF IsObjectLike(value) THEN AfterResolve(value, p, uploaded)
                 ELSE value]),
           ResolveAt(obj, pre, uploaded))

\* Lines 294-391 and 469-512: obj, a value of the record, after the resolver
\* has returned and the sanitizer has gone through what it returned.  Every
\* object of that value is a copy made by the resolver, except the image
\* objects it kept (no assignment at lines 366-377): those are the caller's.
\* The sanitizer goes into such an object if it deleted neither it nor a
\* value around it, which is when its position is left in payload.
RECURSIVE AfterSanitize(_, _, _, _)
AfterSanitize(obj, pre, uploaded, payload) ==
  IF ~Truthy(obj) \/ ~IsObjectLike(obj) THEN obj
  ELSE IF obj.t = "arr"
    THEN Arr([i \in 1..Len(obj.v) |->
           AfterSanitize(obj.v[i], Append(pre, Idx(i)), uploaded, payload)])
    ELSE CopyOfObj(
           Obj([key \in DOMAIN obj.v |->
             LET value == obj.v[key]
                 p == Append(pre, Key(key))
             IN  IF IsImageLeaf(value)
                   THEN IF value.t = "obj" /\ uploaded[p] = 0 /\ HasPosition(payload, p)
                          THEN CopyOfRecord(value, sanitizeRecordBeforeCreate(value))
                          ELSE value
                 ELSE IF IsObjectLike(value) THEN AfterSanitize(value, p, uploaded, payload)
                 ELSE value]),
           ResolveAt(obj, pre, uploaded))

\* Lines 433-438: the caller's record after the resolver, and after the
\* resolver and the sanitizer.
RecordAfterResolve(record, uploaded) == AfterResolve(record, <<>>, uploaded)

RecordAfterSanitize(record, uploaded) ==
  AfterSanitize(record, <<>>, uploaded,
                sanitizeRecordBeforeCreate(processObjectForImages(record, uploaded)))

\* ------------------------------------------------------------------------
\* Media uploader, as seen by the resolver.  primary and fallback are what
\* the two transports answer: -1 the call throws, 0 an answer without a
\* usable id, a positive number the id of the stored file.  The result is
\* the id of the returned file, or 0 for null.
\* ------------------------------------------------------------------------
\* Lines 167-177: the HTTP fallback returns the file only if it has an id.
uploadViaAPI(fallback) == IF fallback > 0 THEN fallback ELSE 0

\* Lines 243-269: the upload service first, the HTTP fallback otherwise.
uploadFileToStrapiMediaLibrary(primary, fallback) ==
  IF primary > 0 THEN primary ELSE uploadViaAPI(fallback)

\* ------------------------------------------------------------------------
\* Inputs
\* ------------------------------------------------------------------------
IMG1 == <<"https:", "//ex.com", "/p", ".png">>
IMG2 == <<"HTTP:", "//x", "/a", ".JPG">>
PAGE == <<"https:", "//ex.com", "/doc", "?", "f=", ".png">>
TXT == <<"A">>
ALT == <<"B">>
NAME == <<"C">>

\* {title: "A", image: "https://ex.com/p.png"}
RecImage == Obj([title |-> Str(TXT), image |-> Str(IMG1)])
\* {cover: {url: "HTTP://x/a.JPG", caption: "A"}, thumb: "https://ex.com/p.png"}
RecCover == Obj([cover |-> Obj([url |-> Str(IMG2), caption |-> Str(TXT)]),
                 thumb |-> Str(IMG1)])
\* {gallery: ["https://ex.com/p.png", {image: "HTTP://x/a.JPG"}, {url: "https://ex.com/p.png"}]}
RecGallery == Obj([gallery |-> Arr(<<Str(IMG1), Obj([image |-> Str(IMG2)]),
                                     Obj([url |-> Str(IMG1)])>>)])
\* references left broken by an earlier export, at several depths
RecBadRef == Obj([title |-> Str(PAGE),
                  media |-> Obj([connect |-> Arr(<<>>)]),
                  items |-> Arr(<<Obj([media |-> Obj([connect |-> Arr(<<Num(0), Num(7)>>)]),
                                       cover |-> Obj([connect |-> Str(TXT)])])>>),
                  thumb |-> Obj([connect |-> Arr(<<Num(7)>>),
                                 cover |-> Obj([connect |-> Arr(<<Null>>)])]),
                  refs |-> Arr(<<Obj([connect |-> Arr(<<>>)])>>)])
\* {title: "A", n: 3}
RecPlain == Obj([title |-> Str(TXT), n |-> Num(3)])
\* {cover: {url: "HTTP://x/a.JPG", caption: "", alt: "B", name: "C"}}
RecAlt == Obj([cover |-> Obj([url |-> Str(IMG2), caption |-> Str(<<>>),
                               alt |-> Str(ALT), name |-> Str(NAME)])])
\* {cover: {url: "https://ex.com/p.png", name: "C"}, logo: {url: "HTTP://x/a.JPG"}}
RecName == Obj([cover |-> Obj([url |-> Str(IMG1), name |-> Str(NAME)]),
                logo |-> Obj([url |-> Str(IMG2)])])
\* {title: "A", link: {url: "https://ex.com/doc?f=.png", caption: "A"}, tags: ["A", 3]}
RecLink == Obj([title |-> Str(TXT),
                link |-> Obj([url |-> Str(PAGE), caption |-> Str(TXT)]),
                tags |-> Arr(<<Str(TXT), Num(3)>>)])
\* {media: {connect: [{media: {connect: []}}, 7]}, thumb: {connect: [], caption: "A"}, n: 3}
RecNestedRef == Obj([media |-> Obj([connect |-> Arr(<<Obj([media |-> Obj([connect |-> Arr(<<>>)])]),
                                                      Num(7)>>)]),
                     thumb |-> Obj([connect |-> Arr(<<>>), caption |-> Str(TXT)]),
                     n |-> Num(3)])
\* {gallery: [{image: "https://ex.com/p.png"}, {image: "https://ex.com/p.png"}]}
RecTwins == Obj([gallery |-> Arr(<<Obj([image |-> Str(IMG1)]), Obj([image |-> Str(IMG1)])>>)])
\* {image: "https://ex.com/p.png", media: {connect: []}}
RecMixed == Obj([image |-> Str(IMG1), media |-> Obj([connect |-> Arr(<<>>)])])
\* {thumb: {connect: [], image: "https://ex.com/p.png"}}
RecInside == Obj([thumb |-> Obj([connect |-> Arr(<<>>), image |-> Str(IMG1)])])
\* {cover: {url: "HTTP://x/a.JPG", media: {connect: []}}}
RecShared == Obj([cover |-> Obj([url |-> Str(IMG2), media |-> Obj([connect |-> Arr(<<>>)])])])
\* Records for the runs of single records, and the ones imported together.
RecordPool == {RecImage, RecCover, RecGallery, RecBadRef, RecPlain,
               RecAlt, RecName, RecLink, RecNestedRef, RecTwins, RecMixed, RecInside,
               RecShared}
BatchPool == {RecImage, RecBadRef}

RECURSIVE SeqsUpTo(_, _)
SeqsUpTo(S, n) ==
  IF n = 0 THEN {<<>>}
  ELSE LET shorter == SeqsUpTo(S, n - 1)
       IN  shorter \cup {Append(s, x) : s \in {t \in shorter : Len(t) = n - 1}, x \in S}

ImageRecords(s) == {i \in 1..Len(s) : ImageLeaves(s[i], <<>>) # {}}
DataInputs ==
  {Null, Obj(<<>>)} \cup
  {Arr(s) : s \in {t \in SeqsUpTo(BatchPool, MaxRecords) :
                     Cardinality(ImageRecords(t)) <= MaxImageRecords}}
SingleInputs == {Arr(<<record>>) : record \in RecordPool}
ContentTypeInputs == {"", "article", "ghost"}

\* strapi.contentTypes: the schemas the host knows, by uid.
Uid(ct) == <<"api::", ct, ".", ct>>
contentTypes == {Uid("article")}

\* Messages of the errors that entityService.create may throw ("" is
\* `new Error()`).  What is thrown is an error object: the catch block reads
\* error.message (line 447).
Messages == {"", "boom"}
\* Messages of the errors that escape the sanitize step.
StepMessages == {"boom"}
NoThrow == [threw |-> FALSE, message |-> ""]
Outcomes == {NoThrow} \cup {[threw |-> TRUE, message |-> m] : m \in Messages}

\* What an upload transport may answer (see uploadFileToStrapiMediaLibrary).
PrimaryAnswers == {-1, 0, 42}
FallbackAnswers == {-1, 0, 43}

\* Object.entries order of the property names used by the inputs.
KeyOrder == <<"title", "cover", "logo", "link", "tags", "gallery", "media", "items",
              "thumb", "refs", "image", "url", "caption", "alt", "name", "connect", "n">>
KeyPos(k) == CHOOSE i \in 1..Len(KeyOrder) : KeyOrder[i] = k

\* ------------------------------------------------------------------------
\* State
\* ------------------------------------------------------------------------
VARIABLES
  pc,              \* "called", "thrown" (fatal error), "running", "returned"
  contentType,     \* argument of importData
  data,            \* argument of importData, a JSON value
  fatal,           \* message of the error importData threw
  results,         \* the ImportResult under construction
  batch,           \* loop variable i of importData
  task,            \* per recordIndex: "idle", "resolve", "create", "ok", "failed"
  leaves,          \* per recordIndex: the state of each image position
  processedRecord, \* per recordIndex: what processObjectForImages returned
  created,         \* per recordIndex: the payloads passed to entityService.create
  thrown,          \* per recordIndex: the step that threw and its message
  downloads,       \* number of downloadImage calls started
  uploads,         \* number of uploadFileToStrapiMediaLibrary calls started
  dl,              \* one call of downloadImage taken alone
  up,              \* one call of uploadFileToStrapiMediaLibrary taken alone
  loop,            \* the batch loop of importData taken alone
  cl,              \* one call of isImageUrl taken alone
  http             \* one request to an import route of the plugin

vars == <<pc, contentType, data, fatal, results, batch, task, leaves,
          processedRecord, created, thrown, downloads, uploads, dl, up, loop, cl, http>>

\* The calls that are followed on their own, apart from an import.
calls == <<dl, up, loop, cl, http>>
\* The state of an import.
import == <<pc, contentType, data, fatal, results, batch, task, leaves,
            processedRecord, created, thrown, downloads, uploads>>
\* No call is followed on its own.
Idle == [pc |-> "idle"]

\* Number of records kept in flight together (line 419; the source uses 20,
\* the model a size that several batches of MaxRecords records exercise).
batchSize == 2

N == IF data.t = "arr" THEN Len(data.v) ELSE 0
Indices == 0..(N - 1)
Record(recordIndex) == data.v[recordIndex + 1]

Min(a, b) == IF a < b THEN a ELSE b

\* Line 420: Math.ceil(data.length / batchSize)
BatchCount_Floor(length, size) == length \div size

BatchCount(length, size) == (length + size - 1) \div size
\* Line 423: start = i * batchSize
SliceStart(i, size) == i * size
\* Line 424: end = Math.min(start + batchSize, data.length)
SliceEnd_Short(i, length, size) == Min(SliceStart(i, size) + size, length) - 1

SliceEnd(i, length, size) == Min(SliceStart(i, size) + size, length)

Batches(n) == BatchCount(n, batchSize)
\* lines 423-429: the recordIndex values of batch i
BatchIndices(i) == SliceStart(i, batchSize)..(SliceEnd(i, N, batchSize) - 1)

Terminal == {"done", "kept"}
TaskDone == {"ok", "failed"}

\* q is a position whose property is visited before the property of p by a
\* for-loop of processObjectForImages (array elements are not ordered).
Precedes(q, p) ==
  /\ q # p
  /\ LET j == CHOOSE j \in 1..Min(Len(p), Len(q)) :
                p[j] # q[j] /\ \A l \in 1..(j - 1) : p[l] = q[l]
     IN  p[j].i = 0 /\ q[j].i = 0 /\ KeyPos(q[j].k) < KeyPos(p[j].k)

\* The download of every position that the loops have reached is started
\* (lines 313 and 351: one call of downloadImage for the property).
StartReady(lm) ==
  [p \in DOMAIN lm |->
     IF lm[p].st = "wait" /\ \A q \in DOMAIN lm : Precedes(q, p) => lm[q].st \in Terminal
       THEN [lm[p] EXCEPT !.st = "download", !.downloads = @ + 1]
       ELSE lm[p]]

Started(old, new) == Cardinality({p \in DOMAIN old : old[p].st = "wait" /\ new[p].st = "download"})

InitialLeaves(record) ==
  LET lm == [p \in ImageLeaves(record, <<>>) |->
               [st |-> "wait", id |-> 0, hint |-> Null, why |-> "",
                downloads |-> 0, uploads |-> 0]]
  IN  StartReady(lm)

RECURSIVE SumOver(_, _)
SumOver(S, f) ==
  IF S = {} THEN 0
  ELSE LET x == CHOOSE x \in S : TRUE IN f[x] + SumOver(S \ {x}, f)

NoResults ==
  [contentType |-> "", totalRecords |-> 0, successful |-> 0, failed |-> 0,
   errors |-> <<>>, processedImages |-> 0, skippedImages |-> 0]

Start(contentTypes_, inputs) ==
  /\ pc = "called"
  /\ contentType \in contentTypes_
  /\ data \in inputs
  /\ fatal = ""
  /\ results = NoResults
  /\ batch = 0
  /\ task = [i \in Indices |-> "idle"]
  /\ leaves = [i \in Indices |-> <<>>]
  /\ processedRecord = [i \in Indices |-> Null]
  /\ created = [i \in Indices |-> <<>>]
  /\ thrown = [i \in Indices |-> [step |-> "none", message |-> ""]]
  /\ downloads = 0
  /\ uploads = 0
  /\ dl = Idle
  /\ up = Idle
  /\ loop = Idle
  /\ cl = Idle
  /\ http = Idle

\* importData is called with any content type and any of the inputs.
Init == Start(ContentTypeInputs, DataInputs)

\* importData is called with one record for a known content type.
InitRecord == Start({"article"}, SingleInputs)

\* ------------------------------------------------------------------------
\* importData
\* ------------------------------------------------------------------------
\* Line 429: the position of a record in the whole input.
RecordIndex_InBatch(start, index) == index

RecordIndex(start, index) == start + index

\* Line 423, for the batch that holds record r.
StartOf(r) == (r \div batchSize) * batchSize

\* Line 445: results.successful++
RecordSucceeded_Stale(res) == [res EXCEPT !.successful = 1]

RecordSucceeded_Twice(res) == [res EXCEPT !.successful = @ + 2]

RecordSucceeded(res) == [res EXCEPT !.successful = @ + 1]

\* Line 451: error.message || 'Unknown error'
ErrorMessage(message) == IF message = "" THEN "Unknown error" ELSE message

\* Lines 446-453: the catch block of a record's task.
RecordFailed_NoEntry(res, recordIndex, message) == [res EXCEPT !.failed = @ + 1]

RecordFailed_Twice(res, recordIndex, message) ==
  [res EXCEPT !.failed = @ + 1,
              !.errors = @ \o << [index |-> recordIndex, message |-> ErrorMessage(message)],
                                 [index |-> recordIndex, message |-> ErrorMessage(message)] >>]

RecordFailed(res, recordIndex, message) ==
  [res EXCEPT !.failed = @ + 1,
              !.errors = Append(@, [index |-> recordIndex,
                                    message |-> ErrorMessage(message)])]

\* Lines 422-454: batch.map starts the task of every record of batch i.
Dispatch(i) ==
  /\ batch' = i
  /\ task' = [r \in Indices |-> IF r \in BatchIndices(i) THEN "resolve" ELSE task[r]]
  /\ leaves' = [r \in Indices |->
                  IF r \in BatchIndices(i) THEN InitialLeaves(Record(r)) ELSE leaves[r]]
  /\ downloads' = downloads +
       SumOver(BatchIndices(i),
               [r \in BatchIndices(i) |->
                  Cardinality({p \in DOMAIN InitialLeaves(Record(r)) :
                                 InitialLeaves(Record(r))[p].st = "download"})])

\* Line 400: !contentType || !data || !Array.isArray(data)
InvalidParameters(ct, d) == ct = "" \/ ~Truthy(d) \/ d.t # "arr"

\* Line 404: strapi.contentTypes[`api::${contentType}.${contentType}`]
SchemaKnown_AnyName(ct) == ct # ""

SchemaKnown(ct) == Uid(ct) \in contentTypes

\* Lines 399-429: the call, up to the first await.
importData ==
  /\ pc = "called"
  /\ IF InvalidParameters(contentType, data)
       THEN /\ pc' = "thrown"
            /\ fatal' = "Invalid parameters: contentType and data array are required"
            /\ UNCHANGED <<results, batch, task, leaves, downloads>>
     ELSE IF ~SchemaKnown(contentType)
       THEN /\ pc' = "thrown"
            /\ fatal' = "Content type not found"
            /\ UNCHANGED <<results, batch, task, leaves, downloads>>
     ELSE /\ results' = [NoResults EXCEPT !.contentType = contentType,
                                          !.totalRecords = Len(data.v)]
          /\ fatal' = fatal
          /\ IF Batches(Len(data.v)) = 0
               THEN /\ pc' = "returned"
                    /\ UNCHANGED <<batch, task, leaves, downloads>>
               ELSE /\ pc' = "running"
                    /\ Dispatch(0)
  /\ UNCHANGED <<contentType, data, processedRecord, created, thrown, uploads>>
  /\ UNCHANGED calls

\* Lines 324-332 and 368-382: a download or an upload that answered null is
\* logged by the else branch, one that threw is logged by the catch block;
\* either way the loop goes on and the property stays as it was.
AfterFailure_Rethrow(outcome) == IF outcome = "throw" THEN "raised" ELSE "kept"

AfterFailure_Retry(outcome) == "wait"

AfterFailure(outcome) == "kept"

\* Lines 313-332 and 351-382: downloadImage settles for the image at p.
DownloadSettles(r, p, outcome) ==
  /\ pc = "running"
  /\ task[r] = "resolve"
  /\ p \in DOMAIN leaves[r]
  /\ leaves[r][p].st = "download"
  /\ LET value == ValueAt(Record(r), p)
         fileData == FileData(LeafUrl(value), 1)
         lm == IF outcome = "ok"
                 THEN [leaves[r] EXCEPT ![p].st = "upload",
                                        ![p].hint = CaptionHint(value, fileData),
                                        ![p].uploads = @ + 1]
                 ELSE StartReady([leaves[r] EXCEPT ![p].st = AfterFailure(outcome),
                                                   ![p].why = outcome])
     IN  /\ leaves' = [leaves EXCEPT ![r] = lm]
         /\ downloads' = downloads + Started(leaves[r], lm)
         /\ uploads' = IF outcome = "ok" THEN uploads + 1 ELSE uploads
  /\ UNCHANGED <<pc, contentType, data, fatal, results, batch, task,
                 processedRecord, created, thrown>>
  /\ UNCHANGED calls

\* Lines 318 and 361: uploadedFile && uploadedFile.id (0 stands for null and
\* for a file without an id).
HasId_Always(uploadedFile) == TRUE

HasId(uploadedFile) == uploadedFile # 0

\* Lines 317-326 and 358-372: the upload settles for the image at p.
UploadSettles(r, p, throws, primary, fallback) ==
  /\ pc = "running"
  /\ task[r] = "resolve"
  /\ p \in DOMAIN leaves[r]
  /\ leaves[r][p].st = "upload"
  /\ LET uploadedFile == uploadFileToStrapiMediaLibrary(primary, fallback)
         lm == StartReady([leaves[r] EXCEPT
                 ![p] = IF throws
                          THEN [@ EXCEPT !.st = AfterFailure("throw"), !.why = "throw"]
                        ELSE IF HasId(uploadedFile)
                          THEN [@ EXCEPT !.st = "done", !.id = uploadedFile]
                        ELSE [@ EXCEPT !.st = AfterFailure("null"), !.why = "null"]])
     IN  /\ leaves' = [leaves EXCEPT ![r] = lm]
         /\ downloads' = downloads + Started(leaves[r], lm)
  /\ UNCHANGED <<pc, contentType, data, fatal, results, batch, task,
                 processedRecord, created, thrown, uploads>>
  /\ UNCHANGED calls

\* The ids the uploads of record r returned, by position.
Uploaded(r) == [p \in DOMAIN leaves[r] |-> leaves[r][p].id]

\* An error of an image operation escaped the loop of processObjectForImages.
Raised(r) == \E p \in DOMAIN leaves[r] : leaves[r][p].st = "raised"

\* Lines 433-443: the data passed to entityService.create for a record whose
\* resolver returned processed.
Payload_Unresolved(record, processed) == sanitizeRecordBeforeCreate(record)

Payload(record, processed) == sanitizeRecordBeforeCreate(processed)

\* Lines 298-301 and 307-390: the promise of processObjectForImages settles
\* for record r once every await of its loops has, or an error escaped them.
ResolverSettled_FirstLeaf(r) ==
  \/ DOMAIN leaves[r] = {}
  \/ \E p \in DOMAIN leaves[r] : leaves[r][p].st \in Terminal

ResolverSettled_WholeBatch(r) ==
  \A s \in BatchIndices(batch) : \A p \in DOMAIN leaves[s] : leaves[s][p].st \in Terminal

ResolverSettled(r) ==
  Raised(r) \/ \A p \in DOMAIN leaves[r] : leaves[r][p].st \in Terminal

\* Lines 433-453: processObjectForImages has settled for record r; the task
\* sanitizes and calls entityService.create, or lands in its catch block.
\* processObjectForImages rejects only with an error that escaped its loop.
ResolveSettles(r, step, message) ==
  /\ pc = "running"
  /\ task[r] = "resolve"
  /\ ResolverSettled(r)
  /\ IF Raised(r)
       THEN /\ results' = RecordFailed(results, RecordIndex(StartOf(r), r - StartOf(r)), "image")
            /\ task' = [task EXCEPT ![r] = "failed"]
            /\ thrown' = [thrown EXCEPT ![r] = [step |-> "resolve", message |-> "image"]]
            /\ UNCHANGED <<processedRecord, created, data>>
     ELSE IF step = "sanitize"
       THEN /\ data' = [data EXCEPT !.v[r + 1] = RecordAfterResolve(Record(r), Uploaded(r))]
            /\ processedRecord' =
                 [processedRecord EXCEPT ![r] = processObjectForImages(Record(r), Uploaded(r))]
            /\ results' = RecordFailed(results, RecordIndex(StartOf(r), r - StartOf(r)), message)
            /\ task' = [task EXCEPT ![r] = "failed"]
            /\ thrown' = [thrown EXCEPT ![r] = [step |-> step, message |-> message]]
            /\ UNCHANGED created
     ELSE /\ data' = [data EXCEPT !.v[r + 1] = RecordAfterSanitize(Record(r), Uploaded(r))]
          /\ processedRecord' =
               [processedRecord EXCEPT ![r] = processObjectForImages(Record(r), Uploaded(r))]
          /\ created' = [created EXCEPT
               ![r] = Append(@, Payload(Record(r), processedRecord'[r]))]
          /\ task' = [task EXCEPT ![r] = "create"]
          /\ UNCHANGED <<results, thrown>>
  /\ UNCHANGED <<pc, contentType, fatal, batch, leaves, downloads, uploads>>
  /\ UNCHANGED calls

\* Lines 441-453: entityService.create settles for record r.
CreateSettles(r, outcome) ==
  /\ pc = "running"
  /\ task[r] = "create"
  /\ IF outcome.threw
       THEN /\ results' = RecordFailed(results, RecordIndex(StartOf(r), r - StartOf(r)),
                                         outcome.message)
            /\ task' = [task EXCEPT ![r] = "failed"]
            /\ thrown' = [thrown EXCEPT ![r] = [step |-> "persist", message |-> outcome.message]]
       ELSE /\ results' = RecordSucceeded(results)
            /\ task' = [task EXCEPT ![r] = "ok"]
            /\ UNCHANGED thrown
  /\ UNCHANGED <<pc, contentType, data, fatal, batch, leaves, processedRecord,
                 created, downloads, uploads>>
  /\ UNCHANGED calls

\* Line 458: every promise of the batch has settled.
BatchSettled_AnyFailed(i) ==
  \/ \A r \in BatchIndices(i) : task[r] \in TaskDone
  \/ \E r \in BatchIndices(i) : task[r] = "failed"

BatchSettled_First(i) == \E r \in BatchIndices(i) : task[r] \in TaskDone

BatchSettled(i) == \A r \in BatchIndices(i) : task[r] \in TaskDone

\* Lines 422 and 458-461: the loop goes on to the next batch, or returns.
BatchSettles ==
  /\ pc = "running"
  /\ BatchSettled(batch)
  /\ IF batch + 1 < Batches(N)
       THEN /\ Dispatch(batch + 1)
            /\ pc' = pc
       ELSE /\ pc' = "returned"
            /\ UNCHANGED <<batch, task, leaves, downloads>>
  /\ UNCHANGED <<contentType, data, fatal, results, processedRecord, created,
                 thrown, uploads>>
  /\ UNCHANGED calls

Next ==
  \/ importData
  \/ \E r \in Indices : \E p \in DOMAIN leaves[r] :
       \E outcome \in {"ok", "null", "throw"} : DownloadSettles(r, p, outcome)
  \/ \E r \in Indices : \E p \in DOMAIN leaves[r] :
       \E throws \in BOOLEAN, primary \in PrimaryAnswers, fallback \in FallbackAnswers :
         UploadSettles(r, p, throws, primary, fallback)
  \/ \E r \in Indices :
       \E step \in {"none", "sanitize"}, message \in StepMessages :
         ResolveSettles(r, step, message)
  \/ \E r \in Indices : \E outcome \in Outcomes : CreateSettles(r, outcome)
  \/ BatchSettles

Spec == Init /\ [][Next]_vars

SpecRecord == InitRecord /\ [][Next]_vars

\* Some continuation of the task of record r runs: a download, an upload or
\* entityService.create settles, or the resolver returns.
TaskStep(r) ==
  /\ r \in Indices
  /\ \/ \E p \in DOMAIN leaves[r] :
          \E outcome \in {"ok", "null", "throw"} : DownloadSettles(r, p, outcome)
     \/ \E p \in DOMAIN leaves[r] :
          \E throws \in BOOLEAN, primary \in PrimaryAnswers, fallback \in FallbackAnswers :
            UploadSettles(r, p, throws, primary, fallback)
     \/ \E step \in {"none", "sanitize"}, message \in StepMessages :
          ResolveSettles(r, step, message)
     \/ \E outcome \in Outcomes : CreateSettles(r, outcome)

\* Every download, upload and create call that was started settles, and the
\* event loop runs every continuation that is ready: the call itself, the
\* continuations of each task, and the continuation of Promise.allSettled.
Fairness ==
  /\ WF_vars(importData)
  /\ WF_vars(BatchSettles)
  /\ \A r \in 0..(MaxRecords - 1) : WF_vars(TaskStep(r))

\* The inputs under which termination is checked: those of Init with at most
\* one record that holds images.  The tasks of a batch share no state but the
\* counters, so a second image pipeline adds interleavings and no control
\* flow to the loop.
FairInputs ==
  {d \in DataInputs : d.t = "arr" => Cardinality(ImageRecords(d.v)) <= 1}

InitFair == Start(ContentTypeInputs, FairInputs)

SpecFair == InitFair /\ [][Next]_vars /\ Fairness

\* ------------------------------------------------------------------------
\* The batch loop of importData with the batch sizes of the source
\* ------------------------------------------------------------------------
\* No import is running: a call is followed on its own.
NoImport ==
  /\ pc = "idle"
  /\ contentType = ""
  /\ data = Null
  /\ fatal = ""
  /\ results = NoResults
  /\ batch = 0
  /\ task = <<>>
  /\ leaves = <<>>
  /\ processedRecord = <<>>
  /\ created = <<>>
  /\ thrown = <<>>
  /\ downloads = 0
  /\ uploads = 0

\* Longest input of the loop taken alone.
MaxLength == 120
\* batchSize in services/service.ts (line 419).
ServiceBatchSize == 20
\* batchSize in the earlier variants of the service (unnamed/part_000).
VariantBatchSize == 50

\* Lines 419-422: the loop is entered with data.length and batchSize.
InitLoop ==
  /\ NoImport
  /\ dl = Idle
  /\ up = Idle
  /\ cl = Idle
  /\ http = Idle
  /\ loop \in {[pc |-> "loop", length |-> length, size |-> size, i |-> 0, slices |-> <<>>] :
                length \in 0..MaxLength, size \in {ServiceBatchSize, VariantBatchSize}}

\* Lines 422-425 and 458: one turn of the loop takes data.slice(start, end).
SliceBatch ==
  /\ loop.pc = "loop"
  /\ loop.i < BatchCount(loop.length, loop.size)
  /\ loop' = [loop EXCEPT
       !.slices = Append(@, <<SliceStart(loop.i, loop.size),
                              SliceEnd(loop.i, loop.length, loop.size)>>),
       !.i = @ + 1]
  /\ UNCHANGED <<import, dl, up, cl, http>>

\* Lines 422 and 461: the loop condition is false, importData returns.
LoopEnds ==
  /\ loop.pc = "loop"
  /\ ~(loop.i < BatchCount(loop.length, loop.size))
  /\ loop' = [loop EXCEPT !.pc = "done"]
  /\ UNCHANGED <<import, dl, up, cl, http>>

NextLoop == SliceBatch \/ LoopEnds

SpecLoop == InitLoop /\ [][NextLoop]_vars

\* ------------------------------------------------------------------------
\* One call of downloadImage(url)
\* ------------------------------------------------------------------------
NOTES == <<"https:", "//ex.com", "/notes", ".txt">>
\* Arguments: strings that are URLs or not, and values that are no string.
UrlInputs == {Null, Num(3), Str(<<>>), Str(TXT), Str(IMG1), Str(IMG2), Str(PAGE), Str(NOTES)}

\* Line 72: maxContentLength
maxContentLength == 10 * 1024 * 1024

\* What axios.get meets: a response (status, length of the body, the
\* content-type header or <<>> without one), no answer within the timeout
\* of line 71, or a transport error.
Responses ==
  {[kind |-> "response", status |-> status, length |-> length, contentType |-> header] :
     status \in {200, 206, 404},
     length \in {0, 1, maxContentLength, maxContentLength + 1},
     header \in {<<>>, <<"image/", "png">>, <<"Image/", "PNG">>, <<"text/", "html">>}}
  \cup {[kind |-> kind, status |-> 0, length |-> 0, contentType |-> <<>>] :
          kind \in {"timeout", "network"}}

\* Line 73: validateStatus
validateStatus_Any2xx(status) == status \in 200..299

validateStatus(status) == status = 200

\* Lines 69-74: axios.get resolves; otherwise it rejects and the catch block
\* of lines 115-126 returns null.
Resolves(response) ==
  /\ response.kind = "response"
  /\ response.length <= maxContentLength
  /\ validateStatus(response.status)

\* Lines 98-101: no content-type header, or one that starts with 'image/'.
ContentTypeAccepted(header) == header = <<>> \/ header[1] = "image/"

\* Lines 52-66: url is a non-empty string that new URL accepts.
UrlAccepted(url) == Truthy(url) /\ url.t = "str" /\ isUrl(url.v)

\* No descriptor: what the fileData field holds when null is returned.
NoFileData == [data |-> 0, name |-> <<>>, type |-> <<>>, size |-> 0]

InitDownload ==
  /\ NoImport
  /\ up = Idle
  /\ loop = Idle
  /\ cl = Idle
  /\ http = Idle
  /\ dl \in {[pc |-> "called", url |-> url, response |-> <<>>, ret |-> "", fileData |-> NoFileData] :
              url \in UrlInputs}

\* Lines 51-74: the call, up to the await of axios.get.
DownloadCalled ==
  /\ dl.pc = "called"
  /\ dl' = IF UrlAccepted(dl.url)
              THEN [dl EXCEPT !.pc = "fetch"]
              ELSE [dl EXCEPT !.pc = "returned", !.ret = "null"]
  /\ UNCHANGED <<import, up, loop, cl, http>>

\* Lines 69-126: axios.get settles and the call returns.
FetchSettles(response) ==
  /\ dl.pc = "fetch"
  /\ dl' = IF /\ Resolves(response)
               /\ response.length # 0
               /\ ContentTypeAccepted(response.contentType)
              THEN [dl EXCEPT !.pc = "returned", !.response = <<response>>, !.ret = "fileData",
                              !.fileData = FileData(dl.url.v, response.length)]
              ELSE [dl EXCEPT !.pc = "returned", !.response = <<response>>, !.ret = "null"]
  /\ UNCHANGED <<import, up, loop, cl, http>>

NextDownload ==
  \/ DownloadCalled
  \/ \E response \in Responses : FetchSettles(response)

SpecDownload == InitDownload /\ [][NextDownload]_vars

\* ------------------------------------------------------------------------
\* One call of uploadFileToStrapiMediaLibrary(fileData, name)
\* ------------------------------------------------------------------------
\* Arguments: what downloadImage returns, and values that are not a usable
\* descriptor.  kind is typeof fileData ("null" for null); an absent field is
\* the empty string or 0.
Descriptor == [kind |-> "object", buffer |-> 0] @@ FileData(IMG1, 1)
FileDataInputs ==
  {Descriptor,
   [Descriptor EXCEPT !.data = 0, !.buffer = 1],
   [Descriptor EXCEPT !.data = 0],
   [Descriptor EXCEPT !.name = <<>>],
   [Descriptor EXCEPT !.name = <<"photo">>],
   [Descriptor EXCEPT !.type = <<>>],
   [Descriptor EXCEPT !.kind = "null"],
   [Descriptor EXCEPT !.kind = "string"]}
NameInputs == {Null, Str(ALT), Str(<<>>)}
\* strapi.plugin('upload').service('upload'): the service, undefined, or a
\* TypeError because the plugin itself is undefined.
ServiceStates == {"ok", "missing", "throws"}
\* fs.writeFileSync: done, or thrown with or without a file left on disk.
WriteOutcomes == {"ok", "throws", "partial"}

\* Lines 189-198: fileData is an object with a name and a type.
HasRequiredProperties(fileData) ==
  fileData.kind = "object" /\ fileData.name # <<>> /\ fileData.type # <<>>

\* Lines 211-213: fileData.buffer is taken as data when data is missing.
WithData(fileData) ==
  IF fileData.buffer # 0 /\ fileData.data = 0
    THEN [fileData EXCEPT !.data = fileData.buffer]
    ELSE fileData

\* Lines 189-219: the call goes on to write the temporary file.
Accepted(fileData, service) ==
  /\ HasRequiredProperties(fileData)
  /\ service = "ok"
  /\ WithData(fileData).data # 0

\* Lines 270-279: the finally block.  The file is still there afterwards
\* only if it was there and fs.unlinkSync threw (the error is logged).
TempFileAfter_NoCleanup(exists, unlinkThrows) == exists

TempFileAfter(exists, unlinkThrows) == exists /\ unlinkThrows

\* Lines 255-269: the primary path did not return a file with an id (it
\* threw, or its result was invalid), so the call goes on to uploadViaAPI.
PrimaryFailed_Always(answer) == TRUE

PrimaryFailed(answer) == answer <= 0

\* process.env.STRAPI_UPLOAD_TOKEN and the plugin's uploadToken setting
\* (config/plugins.ts): undefined, the empty string, or a token.
EnvTokens == {Null, Str(<<>>), Str(<<"E">>)}
ConfigTokens == {Null, Str(<<>>), Str(<<"K">>)}

\* Lines 149-154: the token, '' when neither source holds one.
BearerToken_ConfigFirst(env, config) ==
  IF Truthy(config) THEN config.v
  ELSE IF Truthy(env) THEN env.v
  ELSE <<>>

BearerToken(env, config) ==
  IF Truthy(env) THEN env.v
  ELSE IF Truthy(config) THEN config.v
  ELSE <<>>

\* Lines 144 and 156-158: the Authorization header of the request, <<>>
\* when the request carries none.
Authorization(token) == IF token # <<>> THEN <<"Bearer ">> \o token ELSE <<>>

\* Line 249: fileData.name.replace(/\.[^/.]+$/, '') drops the last dot and
\* what follows it, when there is one.
StripExtension_Keep(name) == name

StripExtension(name) ==
  IF name # <<>> /\ name[Len(name)] \in ExtensionTokens
    THEN SubSeq(name, 1, Len(name) - 1)
    ELSE name

\* Lines 246-250: the fileInfo passed to uploadService.upload.
FileInfo(name, fileData) ==
  [alternativeText |-> IF Truthy(name) THEN name.v ELSE fileData.name,
   caption         |-> IF Truthy(name) THEN name.v ELSE fileData.name,
   name            |-> IF Truthy(name) THEN name.v ELSE StripExtension(fileData.name)]

\* No fileInfo: uploadService.upload has not been called.
NoFileInfo == [alternativeText |-> <<>>, caption |-> <<>>, name |-> <<>>]

InitUpload ==
  /\ NoImport
  /\ dl = Idle
  /\ loop = Idle
  /\ cl = Idle
  /\ http = Idle
  /\ up \in {[pc |-> "called", fileData |-> fileData, name |-> name, service |-> service,
               env |-> env, config |-> config, authorization |-> <<>>,
               tmp |-> FALSE, wrote |-> FALSE, unlinkThrew |-> FALSE,
               primaryCalls |-> 0, fallbackCalls |-> 0,
               fileInfo |-> NoFileInfo,
               primary |-> <<>>, fallback |-> <<>>, ret |-> <<>>] :
              fileData \in FileDataInputs, name \in NameInputs, service \in ServiceStates,
              env \in EnvTokens, config \in ConfigTokens}

\* Lines 270-287: the finally block runs, then the call returns ret (0 is
\* null).  primary, fallback and ret hold the answers received and the value
\* returned, once there is one.
Returns(ret, exists, unlinkThrows) ==
  [up EXCEPT !.pc = "returned",
             !.ret = <<ret>>,
             !.tmp = TempFileAfter(exists, unlinkThrows),
             !.unlinkThrew = exists /\ unlinkThrows]

\* Lines 187-252: the call, up to the await of uploadService.upload.
UploadCalled(write, unlinkThrows) ==
  /\ up.pc = "called"
  /\ up' = IF ~Accepted(up.fileData, up.service)
              THEN [up EXCEPT !.pc = "returned", !.ret = <<0>>]
            ELSE IF write = "ok"
              THEN [up EXCEPT !.pc = "primary",
                              !.fileData = WithData(@),
                              !.tmp = TRUE,
                              !.wrote = TRUE,
                              !.fileInfo = FileInfo(up.name, up.fileData),
                              !.primaryCalls = @ + 1]
            ELSE [Returns(0, write = "partial", unlinkThrows) EXCEPT
                    !.fileData = WithData(@), !.wrote = (write = "partial")]
  /\ UNCHANGED <<import, dl, loop, cl, http>>

\* Lines 243-269: uploadService.upload settles; the call returns its file,
\* or goes on to uploadViaAPI up to the await of axios.post.
PrimarySettles(answer, unlinkThrows) ==
  /\ up.pc = "primary"
  /\ up' = IF PrimaryFailed(answer)
              THEN [up EXCEPT !.pc = "fallback", !.primary = <<answer>>,
                              !.authorization = Authorization(BearerToken(up.env, up.config)),
                              !.fallbackCalls = @ + 1]
              ELSE [Returns(answer, up.tmp, unlinkThrows) EXCEPT !.primary = <<answer>>]
  /\ UNCHANGED <<import, dl, loop, cl, http>>

\* Lines 165-177 and 269-287: axios.post settles, uploadViaAPI returns and so
\* does the call.
FallbackSettles(answer, unlinkThrows) ==
  /\ up.pc = "fallback"
  /\ up' = [Returns(uploadFileToStrapiMediaLibrary(up.primary[1], answer), up.tmp,
                    unlinkThrows)
              EXCEPT !.fallback = <<answer>>]
  /\ UNCHANGED <<import, dl, loop, cl, http>>

NextUpload ==
  \/ \E write \in WriteOutcomes, unlinkThrows \in BOOLEAN : UploadCalled(write, unlinkThrows)
  \/ \E answer \in PrimaryAnswers, unlinkThrows \in BOOLEAN : PrimarySettles(answer, unlinkThrows)
  \/ \E answer \in FallbackAnswers, unlinkThrows \in BOOLEAN : FallbackSettles(answer, unlinkThrows)

SpecUpload == InitUpload /\ [][NextUpload]_vars

\* ------------------------------------------------------------------------
\* One call of isImageUrl(url)
\* ------------------------------------------------------------------------
\* Longest argument, in tokens.
MaxTokens == 4
\* The tokens the arguments are made of.
UrlTokens == {"https:", "HTTP:", "//x", "/a", ".png", ".JPG", ".txt", "?"}
\* The arguments: every string of at most MaxTokens tokens in which a scheme
\* stands only in front and is followed by nothing or by an authority (so
\* that new URL accepts exactly the strings that isUrl does).
UrlStrings ==
  {s \in SeqsUpTo(UrlTokens, MaxTokens) :
     /\ \A i \in 2..Len(s) : s[i] \notin SchemeTokens
     /\ (Len(s) >= 2 /\ s[1] \in SchemeTokens) => s[2] \in AuthorityTokens}

InitClassify ==
  /\ NoImport
  /\ dl = Idle
  /\ up = Idle
  /\ loop = Idle
  /\ http = Idle
  /\ cl \in {[pc |-> "called", url |-> url, ret |-> FALSE] : url \in UrlStrings}

\* Lines 37-43: the call returns.
IsImageUrlCalled ==
  /\ cl.pc = "called"
  /\ cl' = [cl EXCEPT !.pc = "returned", !.ret = isImageUrl(cl.url)]
  /\ UNCHANGED <<import, dl, up, loop, http>>

NextClassify == IsImageUrlCalled

SpecClassify == InitClassify /\ [][NextClassify]_vars

\* ------------------------------------------------------------------------
\* The import routes of the plugin (controllers/controller.ts)
\* ------------------------------------------------------------------------
\* JSON.parse.  A text is a sequence of tokens: the punctuation of JSON, the
\* literals null and 3, and a double quote around the tokens of a string.
Q == "\""
ParseFailed == [ok |-> FALSE, v |-> Null, next |-> 0]
Parsed(v, next) == [ok |-> TRUE, v |-> v, next |-> next]

\* The string literal that opens at position i of text t.
ParseString(t, i) ==
  IF i > Len(t) \/ t[i] # Q \/ ~\E j \in (i + 1)..Len(t) : t[j] = Q
    THEN ParseFailed
    ELSE LET j == CHOOSE j \in (i + 1)..Len(t) :
                    t[j] = Q /\ \A l \in (i + 1)..(j - 1) : t[l] # Q
         IN  Parsed(SubSeq(t, i + 1, j - 1), j + 1)

RECURSIVE ParseValue(_, _)
RECURSIVE ParseElements(_, _, _)
RECURSIVE ParseMembers(_, _, _)
\* The value that starts at position i of text t.
ParseValue(t, i) ==
  IF i > Len(t) THEN ParseFailed
  ELSE CASE t[i] = "null" -> Parsed(Null, i + 1)
         [] t[i] = "3" -> Parsed(Num(3), i + 1)
         [] t[i] = Q -> LET r == ParseString(t, i)
                        IN  IF r.ok THEN Parsed(Str(r.v), r.next) ELSE ParseFailed
         [] t[i] = "[" -> IF i + 1 <= Len(t) /\ t[i + 1] = "]"
                            THEN Parsed(Arr(<<>>), i + 2)
                            ELSE ParseElements(t, i + 1, <<>>)
         [] t[i] = "{" -> IF i + 1 <= Len(t) /\ t[i + 1] = "}"
                            THEN Parsed(Obj(<<>>), i + 2)
                            ELSE ParseMembers(t, i + 1, <<>>)
         [] OTHER -> ParseFailed

\* The elements of an array from position i on, after the elements acc.
ParseElements(t, i, acc) ==
  LET r == ParseValue(t, i)
  IN  IF ~r.ok \/ r.next > Len(t) THEN ParseFailed
      ELSE IF t[r.next] = "," THEN ParseElements(t, r.next + 1, Append(acc, r.v))
      ELSE IF t[r.next] = "]" THEN Parsed(Arr(Append(acc, r.v)), r.next + 1)
      ELSE ParseFailed

\* The members of an object from position i on, after the members acc (a
\* later member replaces an earlier one of the same name).
ParseMembers(t, i, acc) ==
  LET k == ParseString(t, i)
  IN  IF ~k.ok \/ Len(k.v) # 1 \/ k.next > Len(t) \/ t[k.next] # ":" THEN ParseFailed
      ELSE LET r == ParseValue(t, k.next + 1)
               members == (k.v[1] :> r.v) @@ acc
           IN  IF ~r.ok \/ r.next > Len(t) THEN ParseFailed
               ELSE IF t[r.next] = "," THEN ParseMembers(t, r.next + 1, members)
               ELSE IF t[r.next] = "}" THEN Parsed(Obj(members), r.next + 1)
               ELSE ParseFailed

\* JSON.parse(text): the value, or not ok for a SyntaxError.
JSONparse(text) ==
  LET r == ParseValue(text, 1)
  IN  IF r.ok /\ r.next = Len(text) + 1 THEN r ELSE ParseFailed

\* Texts: [{"title":"A","n":3}], [{"title":"A","image":"https://ex.com/p.png"}],
\* two records, [], {}, null, the empty text, and texts that are not JSON.
TextPlain == <<"{", Q, "title", Q, ":", Q, "A", Q, ",", Q, "n", Q, ":", "3", "}">>
TextImage == <<"{", Q, "title", Q, ":", Q, "A", Q, ",",
               Q, "image", Q, ":", Q, "https:", "//ex.com", "/p", ".png", Q, "}">>
JsonTexts ==
  {<<"[">> \o TextPlain \o <<"]">>,
   <<"[">> \o TextImage \o <<"]">>,
   <<"[">> \o TextPlain \o <<",">> \o TextPlain \o <<"]">>,
   <<"[", "]">>,
   <<"{", "}">>,
   <<"null">>,
   <<>>,
   <<"[", "{">>,
   <<"[", "]", "]">>}

Handlers == {"importData", "importJsonData", "handleFileUpload", "importFromLocalFile"}
\* ctx.request.body.data of importData
BodyData == {Null, Obj(<<>>), Arr(<<>>), Arr(<<RecPlain>>), Arr(<<RecImage>>),
             Arr(<<RecPlain, RecPlain>>)}
\* ctx.request.body.jsonData of importJsonData
BodyJsonData == {Null, Num(3)} \cup {Str(text) : text \in JsonTexts}
\* What handleFileUpload and importFromLocalFile find: no file in the
\* request ("none"), an empty list of files ("empty"), a file without a
\* path or no filePath ("nopath"), a path where no file exists ("missing"),
\* a file that cannot be read ("unreadable"), or a file with a text.
Files ==
  {[state |-> state, text |-> <<>>] : state \in {"none", "empty", "nopath", "missing", "unreadable"}}
  \cup {[state |-> "ok", text |-> text] : text \in JsonTexts}
InputsOf(handler) ==
  CASE handler = "importData" -> BodyData
    [] handler = "importJsonData" -> BodyJsonData
    [] handler = "handleFileUpload" -> {f \in Files : f.state # "missing"}
    [] handler = "importFromLocalFile" -> {f \in Files : f.state \notin {"none", "empty"}}

\* ctx.badRequest(message) and ctx.send(body): the answer of the request.
badRequest(message) == [status |-> 400, message |-> message, body |-> <<>>]
send(body) == [status |-> 200, message |-> <<>>, body |-> body]
NoAnswer == [status |-> 0, message |-> <<>>, body |-> <<>>]

\* A validation that stops the handler with an answer, or lets data through.
Reject(message) == [ok |-> FALSE, answer |-> badRequest(message), data |-> Null]
Pass(d) == [ok |-> TRUE, answer |-> NoAnswer, data |-> d]

\* Lines 68-76, 160-172 and 226-238: the text is parsed and must be an array.
ParseArray(text, invalid, notArray) ==
  LET r == JSONparse(text)
  IN  IF ~r.ok THEN Reject(<<invalid, "Unexpected token">>)
      ELSE IF r.v.t # "arr" THEN Reject(<<notArray>>)
      ELSE Pass(r.v)

\* Lines 154-189 and 220-255: the file is read and parsed; what readFileSync
\* throws is caught by the inner catch block.
ReadArray(file) ==
  IF file.state = "unreadable" THEN Reject(<<"Error processing file: ", "EACCES">>)
  ELSE ParseArray(file.text, "Invalid JSON in file: ", "File must contain a JSON array of records")

\* Lines 21-33, 57-79, 103-172 and 202-238: the handler up to its call of
\* the service.
Validate(handler, ct, input) ==
  IF ct = "" THEN Reject(<<"Content type parameter is required">>)
  ELSE CASE handler = "importData" ->
              IF ~Truthy(input) \/ input.t # "arr"
                THEN Reject(<<"Request body must contain a \"data\" array">>)
                ELSE Pass(input)
         [] handler = "importJsonData" ->
              IF ~Truthy(input) \/ input.t # "str"
                THEN Reject(<<"Request body must contain a \"jsonData\" string field">>)
                ELSE ParseArray(input.v, "Invalid JSON: ", "JSON data must be an array")
         [] handler = "handleFileUpload" ->
              IF input.state = "none"
                THEN Reject(<<"No files uploaded. Please upload a JSON file in form-data.">>)
              ELSE IF input.state = "empty" THEN Reject(<<"File data is invalid or empty">>)
              ELSE IF input.state = "nopath"
                THEN Reject(<<"File path is missing. The upload may have failed.">>)
              ELSE ReadArray(input)
         [] handler = "importFromLocalFile" ->
              IF input.state = "nopath" THEN Reject(<<"File path is required in the request body">>)
              ELSE IF input.state = "missing" THEN Reject(<<"File not found at path: ", "filePath">>)
              ELSE ReadArray(input)

\* Lines 45-48, 91-94, 186-189 and 252-255: the catch block that receives
\* what importData threw.
Caught_Success(handler, message) == send([success |-> TRUE, result |-> NoResults])

Caught(handler, message) ==
  IF handler \in {"handleFileUpload", "importFromLocalFile"}
    THEN badRequest(<<"Error processing file: ", message>>)
    ELSE badRequest(<<message>>)

\* Lines 41-44, 87-90, 180-185 and 246-251: the answer after importData
\* returned result.
Sent(handler, result, d) ==
  IF handler \in {"handleFileUpload", "importFromLocalFile"}
    THEN send([success |-> TRUE, file |-> "file", recordsCount |-> Len(d.v), result |-> result])
    ELSE send([success |-> TRUE, result |-> result])

InitHttp ==
  /\ NoImport
  /\ dl = Idle
  /\ up = Idle
  /\ loop = Idle
  /\ cl = Idle
  /\ http \in {[pc |-> "called", handler |-> handler, contentType |-> ct, input |-> input,
                 answer |-> NoAnswer] :
                handler \in Handlers, ct \in ContentTypeInputs,
                input \in UNION {InputsOf(h) : h \in Handlers}}
  /\ http.input \in InputsOf(http.handler)

\* The handler runs up to its await: it answers, or it calls importData.
HandlerCalled ==
  /\ http.pc = "called"
  /\ LET v == Validate(http.handler, http.contentType, http.input)
     IN  IF ~v.ok
           THEN /\ http' = [http EXCEPT !.pc = "answered", !.answer = v.answer]
                /\ UNCHANGED import
           ELSE /\ http' = [http EXCEPT !.pc = "await"]
                /\ pc' = "called"
                /\ contentType' = http.contentType
                /\ data' = v.data
                /\ task' = [i \in 0..(Len(v.data.v) - 1) |-> "idle"]
                /\ leaves' = [i \in 0..(Len(v.data.v) - 1) |-> <<>>]
                /\ processedRecord' = [i \in 0..(Len(v.data.v) - 1) |-> Null]
                /\ created' = [i \in 0..(Len(v.data.v) - 1) |-> <<>>]
                /\ thrown' = [i \in 0..(Len(v.data.v) - 1) |-> [step |-> "none", message |-> ""]]
                /\ UNCHANGED <<fatal, results, batch, downloads, uploads>>
  /\ UNCHANGED <<dl, up, loop, cl>>

\* importData has returned or thrown: the handler answers.
HandlerResumes ==
  /\ http.pc = "await"
  /\ pc \in {"returned", "thrown"}
  /\ http' = [http EXCEPT
       !.pc = "answered",
       !.answer = IF pc = "returned" THEN Sent(http.handler, results, data)
                  ELSE Caught(http.handler, fatal)]
  /\ UNCHANGED <<import, dl, up, loop, cl>>

NextHttp == HandlerCalled \/ Next \/ HandlerResumes

SpecHttp == InitHttp /\ [][NextHttp]_vars

\* ------------------------------------------------------------------------
\* Properties of importData
\* ------------------------------------------------------------------------
\* The records whose task threw at some step.
Threw == {r \in Indices : thrown[r].step # "none"}
\* The create calls made for record r.
CallsFor(r) == 1..Len(created[r])
\* The errors entries that carry index r.
EntriesFor(r) == {e \in 1..Len(results.errors) : results.errors[e].index = r}

\* C1: when importData returns, successful + failed = totalRecords = the
\* length of the input array, whatever the interleaving of the tasks and
\* whichever of the resolve, sanitize and persist steps threw.
C1_CountsAddUp ==
  pc = "returned" =>
    /\ results.successful + results.failed = results.totalRecords
    /\ results.totalRecords = Len(data.v)

C1_Witness ==
  /\ pc = "returned"
  /\ Len(data.v) = 3
  /\ results.successful = 1
  /\ \E r \in Indices : thrown[r].step = "sanitize"
  /\ \E r \in Indices : thrown[r].step = "persist"

\* C2: when importData returns, errors has as many entries as failed counts,
\* and the index values of the entries are pairwise distinct and lie in
\* 0 .. totalRecords - 1.
C2_ErrorsMatchFailed ==
  pc = "returned" =>
    /\ Len(results.errors) = results.failed
    /\ \A e \in 1..Len(results.errors) :
         /\ results.errors[e].index >= 0
         /\ results.errors[e].index < results.totalRecords
    /\ \A e, f \in 1..Len(results.errors) :
         results.errors[e].index = results.errors[f].index => e = f

C2_Witness ==
  /\ pc = "returned"
  /\ results.failed = 3
  /\ results.errors[1].index = 1
  /\ results.errors[2].index = 0
  /\ results.errors[3].index = 2

\* C3 as amended: when importData returns, errors holds exactly one entry
\* for each position whose record threw at resolve, sanitize or persist and
\* none for any other position; the entry's index is the position in the
\* whole input, and its message is the thrown message, or 'Unknown error'
\* when the thrown error has an empty message.
C3_ErrorsNameThrowers ==
  pc = "returned" =>
    \A r \in Indices :
      /\ Cardinality(EntriesFor(r)) = (IF r \in Threw THEN 1 ELSE 0)
      /\ \A e \in EntriesFor(r) :
           results.errors[e].message =
             (IF thrown[r].message = "" THEN "Unknown error" ELSE thrown[r].message)

\* C3 as stated: the message of the entry is the thrown message.
C3_MessageIsThrown ==
  pc = "returned" =>
    \A r \in Indices :
      /\ Cardinality(EntriesFor(r)) = (IF r \in Threw THEN 1 ELSE 0)
      /\ \A e \in EntriesFor(r) : results.errors[e].message = thrown[r].message

\* Two records threw, one of them in the second batch and one with an empty message.
C3_Witness ==
  /\ pc = "returned"
  /\ Len(data.v) = 3
  /\ Threw = {1, 2}
  /\ thrown[2] = [step |-> "persist", message |-> "boom"]
  /\ results.errors[2] = [index |-> 2, message |-> "boom"]
  /\ thrown[1].message = ""

\* C4: a record that fails stops no other record.  When importData returns,
\* every record has settled, every record whose own resolve and sanitize
\* steps did not throw was offered to entityService.create exactly once with
\* sanitize(resolve(record)), and a record succeeded exactly when none of
\* its own steps threw, whatever happened to the other records.
C4_FailuresAreIsolated ==
  pc = "returned" =>
    \A r \in Indices :
      /\ task[r] \in {"ok", "failed"}
      /\ Cardinality(CallsFor(r)) =
           (IF thrown[r].step \in {"none", "persist"} THEN 1 ELSE 0)
      /\ \A c \in CallsFor(r) :
           created[r][c] = sanitizeRecordBeforeCreate(processedRecord[r])
      /\ (task[r] = "ok") = (thrown[r].step = "none")

\* The first record failed; its sibling and the record of the next batch
\* were persisted.
C4_Witness ==
  /\ pc = "returned"
  /\ Len(data.v) = 3
  /\ thrown[0].step = "sanitize"
  /\ task[1] = "ok"
  /\ task[2] = "ok"
  /\ created[0] = <<>>
  /\ Len(created[1]) = 1
  /\ Len(created[2]) = 1

\* C5: with an empty contentTypeId, records that are not an array, or a
\* contentTypeId without schema, importData throws and touches no record:
\* no download, no upload, no create call, no result.
C5_FatalBeforeAnyRecord ==
  (contentType = "" \/ data.t # "arr" \/ Uid(contentType) \notin contentTypes) =>
    /\ pc \in {"called", "thrown"}
    /\ pc = "thrown" => fatal # ""
    /\ downloads = 0
    /\ uploads = 0
    /\ \A r \in Indices : created[r] = <<>>
    /\ results = NoResults
    /\ \A r \in Indices : task[r] = "idle" /\ leaves[r] = <<>>

C5_Witness ==
  /\ pc = "thrown"
  /\ contentType = "ghost"
  /\ data.t = "arr"
  /\ Len(data.v) = 3
  /\ ImageLeaves(data.v[1], <<>>) # {}

\* C6: batches run one after another.  Every record in flight belongs to
\* the current batch, at most batchSize records are in flight, and no record
\* of a batch has been dispatched while a record of an earlier batch has not
\* settled.
C6_OneBatchAtATime ==
  LET InFlight == {r \in Indices : task[r] \in {"resolve", "create"}}
  IN  /\ \A r \in InFlight : r \div batchSize = batch
      /\ Cardinality(InFlight) <= batchSize
      /\ \A r, q \in Indices :
           (q \div batchSize < r \div batchSize /\ task[r] # "idle")
             => task[q] \in {"ok", "failed"}

C6_Witness ==
  /\ pc = "running"
  /\ batch = 1
  /\ task[2] = "create"
  /\ task[0] = "failed"
  /\ task[1] = "ok"

\* ------------------------------------------------------------------------
\* Properties of the per-record pipeline
\* ------------------------------------------------------------------------
\* No property of v, at any depth, holds {connect: [...]} with an empty list
\* or a falsy element.
RECURSIVE NoMalformedReference(_)
NoMalformedReference(v) ==
  IF v.t = "arr" THEN \A i \in 1..Len(v.v) : NoMalformedReference(v.v[i])
  ELSE IF v.t = "obj"
    THEN \A key \in DOMAIN v.v :
           LET x == v.v[key]
           IN  /\ ~ /\ x.t = "obj"
                    /\ "connect" \in DOMAIN x.v
                    /\ x.v["connect"].t = "arr"
                    /\ \/ x.v["connect"].v = <<>>
                       \/ \E i \in 1..Len(x.v["connect"].v) :
                            x.v["connect"].v[i] \in {Null, Num(0), Str(<<>>), Bool(FALSE)}
               /\ NoMalformedReference(x)
  ELSE TRUE

\* C7: no payload passed to entityService.create holds, as a property value
\* at any depth (also inside objects that are array elements), a value
\* {connect: [...]} whose list is empty or has a falsy element.
C7_NoMalformedReferencePersisted ==
  \A r \in Indices : \A c \in CallsFor(r) : NoMalformedReference(created[r][c])

\* The record with broken references was offered to create without them;
\* the valid reference and the array element are still there.
C7_Witness ==
  /\ data = Arr(<<RecBadRef>>)
  /\ Len(created[0]) = 1
  /\ DOMAIN created[0][1].v = {"title", "items", "thumb", "refs"}
  /\ created[0][1].v["items"] = Arr(<<Obj(<<>>)>>)
  /\ created[0][1].v["thumb"] = Obj([connect |-> Arr(<<Num(7)>>)])
  /\ created[0][1].v["refs"] = RecBadRef.v["refs"]

\* C8: when the download or the upload of an image fails, the property keeps
\* its original value in what the resolver returns (and, for a string, in
\* the payload wherever the sanitizer kept its position), the record is still sanitized and offered to create, it
\* counts as successful when create succeeds, and failed and errors count
\* only the records whose own step threw.
C8_ImageFailureKeepsValue ==
  /\ \A r \in Indices :
       LET Kept == {p \in DOMAIN leaves[r] : leaves[r][p].st = "kept"}
       IN  /\ (task[r] \in {"create", "ok"} \/ thrown[r].step \in {"sanitize", "persist"})
                => \A p \in Kept : ValueAt(processedRecord[r], p) = ValueAt(Record(r), p)
           /\ \A c \in CallsFor(r) : \A p \in Kept :
                (ValueAt(Record(r), p).t = "str" /\ HasPosition(created[r][c], p))
                  => ValueAt(created[r][c], p) = ValueAt(Record(r), p)
           /\ (task[r] = "failed") = (r \in Threw)
           /\ (pc = "returned" /\ r \notin Threw)
                => task[r] = "ok" /\ Cardinality(CallsFor(r)) = 1
  /\ results.failed = Cardinality(Threw)
  /\ Len(results.errors) = Cardinality(Threw)
  /\ pc = "returned" => results.successful = Cardinality({r \in Indices : task[r] = "ok"})

\* The download of one image and the upload of the other failed; the record
\* was persisted as it came.
C8_Witness ==
  /\ pc = "returned"
  /\ data = Arr(<<RecCover>>)
  /\ downloads = 2
  /\ uploads = 1
  /\ \A p \in DOMAIN leaves[0] : leaves[0][p].st = "kept"
  /\ created[0] = <<RecCover>>
  /\ results.successful = 1
  /\ results.failed = 0
  /\ results.errors = <<>>

RECURSIVE ImageStringPositions(_, _)
ImageStringPositions(v, pre) ==
  IF IsImageString(v) THEN {pre}
  ELSE IF v.t = "arr"
    THEN UNION {ImageStringPositions(v.v[i], Append(pre, Idx(i))) : i \in 1..Len(v.v)}
  ELSE IF v.t = "obj"
    THEN UNION {IF IsImageObject(v.v[key]) THEN {}
                ELSE ImageStringPositions(v.v[key], Append(pre, Key(key)))
                : key \in DOMAIN v.v}
  ELSE {}

\* C10: every plain string that is an image URL, also one that is an element
\* of an array, is downloaded and uploaded, and on success the resolver's
\* result holds {connect: [id]} at the same position.
C10_EveryImageStringResolved ==
  \A r \in Indices :
    task[r] # "idle" =>
      \A q \in ImageStringPositions(Record(r), <<>>) :
        /\ q \in DOMAIN leaves[r]
        /\ (leaves[r][q].st = "done" /\ task[r] \in {"create", "ok"})
             => ValueAt(processedRecord[r], q) = MediaReference(leaves[r][q].id)

\* The position p of record r holds an object whose url is an image URL.
ImageObjectAt(r, p) == p \in DOMAIN leaves[r] /\ IsImageObject(ValueAt(Record(r), p))

\* The resolver has returned a value for record r.
Resolved(r) == task[r] \in {"create", "ok"} \/ thrown[r].step \in {"sanitize", "persist"}

\* The first of caption, alt, name that is not empty (not falsy), or null.
FirstNonEmpty(value) ==
  LET given == <<Member(value, "caption"), Member(value, "alt"), Member(value, "name")>>
  IN  IF \E i \in 1..3 : Truthy(given[i])
        THEN given[CHOOSE i \in 1..3 : Truthy(given[i]) /\ \A j \in 1..(i - 1) : ~Truthy(given[j])]
        ELSE Null

\* The first of caption, alt, name that the object has, or null.
FirstPresent(value) ==
  IF HasKey(value, "caption") THEN value.v["caption"]
  ELSE IF HasKey(value, "alt") THEN value.v["alt"]
  ELSE IF HasKey(value, "name") THEN value.v["name"]
  ELSE Null

\* Once download and upload succeeded, the whole property is the reference.
WholeValueReplaced(r, p) ==
  (leaves[r][p].st = "done" /\ Resolved(r))
    => /\ leaves[r][p].id > 0
       /\ ValueAt(processedRecord[r], p) = Obj([connect |-> Arr(<<Num(leaves[r][p].id)>>)])

\* C11 as amended: for a property whose value is an object with an image URL
\* as url, a successful download and upload replaces the whole value by
\* {connect: [id]}, and the caption hint passed to the uploader is the first
\* of caption, alt, name that is not empty (an empty caption is skipped), or
\* the generated file name when there is none.
C11_ObjectLeafReplacedWhole ==
  \A r \in Indices : \A p \in DOMAIN leaves[r] :
    ImageObjectAt(r, p) =>
      /\ WholeValueReplaced(r, p)
      /\ leaves[r][p].st \in {"upload", "done"} => leaves[r][p].hint # Null
      /\ leaves[r][p].hint # Null =>
            IF FirstNonEmpty(ValueAt(Record(r), p)) # Null
              THEN leaves[r][p].hint = FirstNonEmpty(ValueAt(Record(r), p))
              ELSE leaves[r][p].hint.t = "str" /\ leaves[r][p].hint.v[1] = "uuid"

\* C11 as stated: the hint is the first of caption, alt, name that is present.
C11_HintIsFirstPresent ==
  \A r \in Indices : \A p \in DOMAIN leaves[r] :
    ImageObjectAt(r, p) =>
      /\ WholeValueReplaced(r, p)
      /\ (leaves[r][p].hint # Null /\ FirstPresent(ValueAt(Record(r), p)) # Null)
            => leaves[r][p].hint = FirstPresent(ValueAt(Record(r), p))

\* {cover: {url, caption: "", alt: "B", name: "C"}} was uploaded with the
\* hint "B" and the payload holds cover = {connect: [42]}.
C11_Witness ==
  /\ data = Arr(<<RecAlt>>)
  /\ task[0] = "ok"
  /\ leaves[0][<<Key("cover")>>] = [st |-> "done", id |-> 42, hint |-> Str(ALT), why |-> "",
                                    downloads |-> 1, uploads |-> 1]
  /\ processedRecord[0] = Obj([cover |-> Obj([connect |-> Arr(<<Num(42)>>)])])
  /\ created[0] = <<processedRecord[0]>>

\* C12: processObjectForImages never raises.  Whatever the downloads and the
\* uploads of a record answer (a file, null, or an exception), no error
\* escapes the resolver, it is never left without an operation to wait for
\* before it has visited every image, it returns a value once they have all
\* settled, and every image whose download or upload failed is left at its
\* original value.
C12_ResolverNeverRaises ==
  \A r \in Indices :
    /\ thrown[r].step # "resolve"
    /\ \A p \in DOMAIN leaves[r] :
         /\ leaves[r][p].st \in {"wait", "download", "upload", "done", "kept"}
         /\ leaves[r][p].why # "" => leaves[r][p].st = "kept"
    /\ task[r] = "resolve" =>
         \/ \E p \in DOMAIN leaves[r] : leaves[r][p].st \in {"download", "upload"}
         \/ \A p \in DOMAIN leaves[r] : leaves[r][p].st \in {"done", "kept"}
    /\ pc = "returned" => Resolved(r)
    /\ Resolved(r) =>
         /\ processedRecord[r].t = Record(r).t
         /\ \A p \in DOMAIN leaves[r] :
              leaves[r][p].st = "kept"
                => ValueAt(processedRecord[r], p) = ValueAt(Record(r), p)

\* The download of cover threw and the upload of thumb threw; the resolver
\* returned the record as it came.
C12_Witness ==
  /\ data = Arr(<<RecCover>>)
  /\ Resolved(0)
  /\ leaves[0][<<Key("cover")>>].st = "kept" /\ leaves[0][<<Key("cover")>>].why = "throw"
  /\ leaves[0][<<Key("thumb")>>].st = "kept" /\ leaves[0][<<Key("thumb")>>].why = "throw"
  /\ uploads = 1
  /\ processedRecord[0] = RecCover

\* v holds, at some depth, a string that is an image URL.
RECURSIVE HoldsImageUrl(_)
HoldsImageUrl(v) ==
  CASE v.t = "str" -> isImageUrl(v.v)
    [] v.t = "arr" -> \E i \in 1..Len(v.v) : HoldsImageUrl(v.v[i])
    [] v.t = "obj" -> \E key \in DOMAIN v.v : HoldsImageUrl(v.v[key])
    [] OTHER -> FALSE

\* C13: for a record that holds no image URL (neither as a string nor as the
\* url of an object), the resolver starts no download and no upload and
\* returns a value equal to the record; the record handed to importData is
\* never changed.
C13_NoImageNoChange ==
  /\ [](\A r \in Indices :
         (~HoldsImageUrl(Record(r)) /\ task[r] # "idle") =>
           /\ DOMAIN leaves[r] = {}
           /\ N = 1 => downloads = 0 /\ uploads = 0
           /\ Resolved(r) => processedRecord[r] = Record(r))
  /\ [][data' = data]_vars

\* {title, link: {url: "https://ex.com/doc?f=.png", caption}, tags} went
\* through the resolver unchanged.
C13_Witness ==
  /\ data = Arr(<<RecLink>>)
  /\ task[0] = "ok"
  /\ processedRecord[0] = RecLink
  /\ created[0] = <<RecLink>>
  /\ downloads = 0
  /\ uploads = 0

\* ------------------------------------------------------------------------
\* Properties of the sanitizer
\* ------------------------------------------------------------------------
Falsy == {Null, Num(0), Str(<<>>), Bool(FALSE)}

\* x is an object whose connect is a list that is empty or has a falsy element.
BrokenList(x) ==
  /\ x.t = "obj"
  /\ "connect" \in DOMAIN x.v
  /\ x.v["connect"].t = "arr"
  /\ \/ x.v["connect"].v = <<>>
     \/ \E i \in 1..Len(x.v["connect"].v) : x.v["connect"].v[i] \in Falsy

\* x is an object whose connect is not a list.
ConnectNotList(x) ==
  x.t = "obj" /\ "connect" \in DOMAIN x.v /\ x.v["connect"].t # "arr"

\* y is x without the keys, at every depth, whose value is a broken list (or,
\* when notList holds, has a connect that is not a list), and nothing else
\* is removed or changed.
RECURSIVE Strips(_, _, _)
Strips(x, y, notList) ==
  CASE x.t = "arr" ->
         /\ y.t = "arr"
         /\ Len(y.v) = Len(x.v)
         /\ \A i \in 1..Len(x.v) : Strips(x.v[i], y.v[i], notList)
    [] x.t = "obj" ->
         /\ y.t = "obj"
         /\ DOMAIN y.v = {key \in DOMAIN x.v :
                            ~(BrokenList(x.v[key]) \/ (notList /\ ConnectNotList(x.v[key])))}
         /\ \A key \in DOMAIN y.v : Strips(x.v[key], y.v[key], notList)
    [] OTHER -> y = x

\* C14 as amended: the payload is the resolver's result without exactly the
\* object keys, at every depth, whose value is an object with a connect
\* that is an empty list, a list with a falsy element, or not a list; no
\* other key or value is removed or changed, and a valid {connect: [id]} is
\* kept.
C14_StripsExactlyBrokenReferences ==
  \A r \in Indices : \A c \in CallsFor(r) :
    Strips(processedRecord[r], created[r][c], TRUE)

\* C14 as stated: a value whose connect is not a list is kept.
C14_ConnectNotListKept ==
  \A r \in Indices : \A c \in CallsFor(r) :
    Strips(processedRecord[r], created[r][c], FALSE)

\* items[0] lost media ({connect: [0, 7]}) and cover ({connect: "A"}); the
\* valid thumb.connect and the title are still there.
C14_Witness ==
  /\ data = Arr(<<RecBadRef>>)
  /\ Len(created[0]) = 1
  /\ ConnectNotList(processedRecord[0].v["items"].v[1].v["cover"])
  /\ DOMAIN created[0][1].v["items"].v[1].v = {}
  /\ DOMAIN created[0][1].v["thumb"].v = {"connect"}
  /\ created[0][1].v["thumb"].v["connect"] = Arr(<<Num(7)>>)
  /\ created[0][1].v["title"] = Str(PAGE)
  /\ "media" \notin DOMAIN created[0][1].v

\* C15: the sanitizer is idempotent; sanitizing a payload that it produced
\* gives the same payload.
C15_SanitizerIdempotent ==
  \A r \in Indices : \A c \in CallsFor(r) :
    /\ created[r][c] = sanitizeRecordBeforeCreate(processedRecord[r])
    /\ sanitizeRecordBeforeCreate(created[r][c]) = created[r][c]

\* {media: {connect: [{media: {connect: []}}, 7]}, thumb: {connect: [], caption}, n: 3}:
\* the reference is kept, and the broken ones (inside its list, and thumb)
\* are removed once and for all.
C15_Witness ==
  /\ data = Arr(<<RecNestedRef>>)
  /\ created[0] = <<Obj([media |-> Obj([connect |-> Arr(<<Obj(<<>>), Num(7)>>)]),
                          n |-> Num(3)])>>
  /\ created[0][1] # processedRecord[0]

\* ------------------------------------------------------------------------
\* Properties of the batch loop
\* ------------------------------------------------------------------------
\* The number of records of the k-th batch taken.
SliceSize(k) == loop.slices[k][2] - loop.slices[k][1]
SliceSizes == [k \in 1..Len(loop.slices) |-> SliceSize(k)]

\* The batches are contiguous and in input order, each has `size` records
\* except possibly the last, which has at least one, and once the loop has
\* ended every position of the input lies in exactly one batch.
Partitioned(size) ==
  /\ \A k \in 1..Len(loop.slices) :
       /\ loop.slices[k][1] = (IF k = 1 THEN 0 ELSE loop.slices[k - 1][2])
       /\ SliceSize(k) >= 1
       /\ SliceSize(k) <= size
       /\ k < Len(loop.slices) => SliceSize(k) = size
  /\ loop.pc = "done" =>
       /\ loop.length = 0 => loop.slices = <<>>
       /\ loop.length > 0 =>
            /\ loop.slices # <<>>
            /\ loop.slices[Len(loop.slices)][2] = loop.length
       /\ \A x \in 0..(loop.length - 1) :
            Cardinality({k \in 1..Len(loop.slices) :
                           loop.slices[k][1] <= x /\ x < loop.slices[k][2]}) = 1

\* C16 as amended: importData partitions the input into contiguous,
\* order-preserving batches of batchSize records with only the last batch
\* possibly smaller, and every record belongs to exactly one batch;
\* batchSize is 20 in the plugin's service, so a 120-record input is
\* processed there in 6 batches of 20 (the earlier variant with batchSize 50
\* takes 50, 50 and 20).
C16_BatchesPartitionInput ==
  loop.pc # "idle" =>
    /\ Partitioned(loop.size)
    /\ (loop.pc = "done" /\ loop.length = 120 /\ loop.size = ServiceBatchSize)
         => SliceSizes = <<20, 20, 20, 20, 20, 20>>
    /\ (loop.pc = "done" /\ loop.length = 120 /\ loop.size = VariantBatchSize)
         => SliceSizes = <<50, 50, 20>>

\* C16 as stated: the batches have 50 records, and 120 records make the
\* batches 50, 50 and 20.
C16_BatchesOfFifty ==
  loop.pc # "idle" =>
    /\ Partitioned(50)
    /\ (loop.pc = "done" /\ loop.length = 120) => SliceSizes = <<50, 50, 20>>

\* The loop of the plugin's service has ended on 120 records.
C16_Witness ==
  /\ loop.pc = "done"
  /\ loop.length = 120
  /\ loop.size = ServiceBatchSize
  /\ Len(loop.slices) = 6
  /\ loop.slices[6] = <<100, 120>>

\* ------------------------------------------------------------------------
\* Properties of the media uploader
\* ------------------------------------------------------------------------
\* The call was given a descriptor with a name, a type and bytes.
ValidDescriptor == HasRequiredProperties(up.fileData) /\ WithData(up.fileData).data # 0

C18_FallbackAttempted ==
  (up.pc = "returned" /\ ValidDescriptor
     /\ (up.service # "ok" \/ (up.primary # <<>> /\ up.primary[1] <= 0)))
    => up.fallbackCalls = 1

\* C19: in one call the primary path is tried at most once and the fallback
\* at most once, the fallback only after the primary failed and never after
\* it succeeded; every path of the call ends in a return (the exceptions of
\* both paths, of the service lookup and of the file write are caught), with
\* the file of the primary path when that succeeded and with null when both
\* paths failed.
C19_EachPathAtMostOnce ==
  up.pc # "idle" =>
    /\ up.primaryCalls <= 1
    /\ up.fallbackCalls <= 1
    /\ up.fallbackCalls = 1 =>
         up.primaryCalls = 1 /\ up.primary # <<>> /\ up.primary[1] <= 0
    /\ (up.primary # <<>> /\ up.primary[1] > 0) =>
         up.fallbackCalls = 0 /\ up.ret = up.primary
    /\ up.pc = "returned" => up.ret # <<>> /\ up.ret[1] >= 0
    /\ (up.pc = "returned" /\ up.fallback # <<>> /\ up.fallback[1] <= 0) => up.ret = <<0>>
    /\ (up.pc = "returned" /\ up.fallback # <<>> /\ up.fallback[1] > 0) => up.ret = up.fallback

\* The primary path threw, then the fallback threw: null is returned.
C19_Witness ==
  /\ up.pc = "returned"
  /\ up.primaryCalls = 1
  /\ up.fallbackCalls = 1
  /\ up.primary = <<-1>>
  /\ up.fallback = <<-1>>
  /\ up.ret = <<0>>

\* ------------------------------------------------------------------------
\* Properties of the image retriever
\* ------------------------------------------------------------------------
\* One of the reasons to reject holds for the call that returned.
MustReject ==
  \/ dl.url.t # "str"
  \/ dl.url.v = <<>>
  \/ ~(dl.url.v[1] \in {"https:", "http:", "HTTP:"} /\ Len(dl.url.v) >= 2)
  \/ /\ dl.response # <<>>
     /\ LET response == dl.response[1]
        IN  \/ response.kind \in {"timeout", "network"}
            \/ response.status # 200
            \/ response.length = 0
            \/ response.length > 10485760
            \/ response.contentType # <<>> /\ response.contentType[1] # "image/"

\* C20: downloadImage always returns and never throws; it returns null when
\* the url is not a string or is not parsed as a URL, the fetch does not
\* answer with status 200, the body is empty, the size or the time ceiling
\* is exceeded, the transport fails, or a content-type header is present
\* and does not begin with image/; it returns a descriptor, with the bytes
\* fetched, exactly when none of these holds.
C20_DownloadRejectsOrDescribes ==
  dl.pc = "returned" =>
    /\ dl.ret \in {"null", "fileData"}
    /\ (dl.ret = "null") = MustReject
    /\ dl.ret = "null" => dl.fileData = NoFileData
    /\ dl.ret = "fileData" =>
         /\ dl.fileData.size = dl.response[1].length
         /\ dl.fileData.data = dl.response[1].length
         /\ dl.fileData.name # <<>>
         /\ dl.fileData.type # <<>>

\* Status 200 with a body and the content type text/html: null.
C20_Witness ==
  /\ dl.pc = "returned"
  /\ dl.url = Str(IMG1)
  /\ dl.response = <<[kind |-> "response", status |-> 200, length |-> 1,
                       contentType |-> <<"text/", "html">>]>>
  /\ dl.ret = "null"

\* The image positions of record r that carry the same URL as position p.
SameUrl(r, p) ==
  {q \in DOMAIN leaves[r] :
     q # p /\ LeafUrl(ValueAt(Record(r), q)) = LeafUrl(ValueAt(Record(r), p))}
\* The downloadImage and upload calls made for the image positions of all
\* records.
AllLeaves == {<<r, p>> : r \in Indices, p \in UNION {DOMAIN leaves[i] : i \in Indices}}
LeafCalls(field) ==
  SumOver({rp \in AllLeaves : rp[2] \in DOMAIN leaves[rp[1]]},
          [rp \in AllLeaves |->
             IF rp[2] \in DOMAIN leaves[rp[1]] THEN leaves[rp[1]][rp[2]][field] ELSE 0])

C21_WitnessNoRetry ==
  /\ data = Arr(<<RecCover>>)
  /\ pc = "returned"
  /\ leaves[0][<<Key("cover")>>].why = "null"
  /\ leaves[0][<<Key("cover")>>].downloads = 1
  /\ leaves[0][<<Key("cover")>>].uploads = 0
  /\ leaves[0][<<Key("thumb")>>].st = "done"
  /\ downloads = 2
  /\ uploads = 1

\* ------------------------------------------------------------------------
\* Properties of the primary upload's metadata
\* ------------------------------------------------------------------------
\* uploadService.upload was called with the metadata fileInfo.
PrimaryCalled == up.pc # "idle" /\ up.primaryCalls = 1
\* stem is filename without its extension.
IsStem(stem, filename) ==
  \/ \E e \in ExtensionTokens : filename = Append(stem, e)
  \/ stem = filename /\ \A e \in ExtensionTokens : filename[Len(filename)] # e

\* C22 as amended: on the primary upload path alternativeText, caption and
\* name are all equal to the caption hint when one is given and is not
\* empty; otherwise alternativeText and caption are the asset's filename
\* with its extension, and name is the filename with the extension stripped.
C22_MetadataFromHintOrFilename ==
  PrimaryCalled =>
    IF up.name # Null /\ up.name.v # <<>>
      THEN /\ up.fileInfo.alternativeText = up.name.v
           /\ up.fileInfo.caption = up.name.v
           /\ up.fileInfo.name = up.name.v
      ELSE /\ up.fileInfo.alternativeText = up.fileData.name
           /\ up.fileInfo.caption = up.fileData.name
           /\ IsStem(up.fileInfo.name, up.fileData.name)

\* C22 as stated: without a hint all three are the stripped filename.
C22_AllThreeStripped ==
  PrimaryCalled =>
    IF up.name # Null
      THEN /\ up.fileInfo.alternativeText = up.name.v
           /\ up.fileInfo.caption = up.name.v
           /\ up.fileInfo.name = up.name.v
      ELSE /\ IsStem(up.fileInfo.alternativeText, up.fileData.name)
           /\ IsStem(up.fileInfo.caption, up.fileData.name)
           /\ IsStem(up.fileInfo.name, up.fileData.name)

\* The primary upload was called without a hint for uuid.png: the file is
\* named uuid and captioned uuid.png.
C22_Witness ==
  /\ PrimaryCalled
  /\ up.name = Null
  /\ up.fileData.name = <<"uuid", ".png">>
  /\ up.fileInfo.name = <<"uuid">>
  /\ up.fileInfo.caption = <<"uuid", ".png">>

\* ------------------------------------------------------------------------
\* Properties of the tasks of one batch
\* ------------------------------------------------------------------------
\* An image operation of record r has not settled.
ImagePending(r) == \E p \in DOMAIN leaves[r] : leaves[r][p].st \in {"download", "upload"}
\* Some continuation of the task of record r can run.
CanStep(r) ==
  \/ ENABLED (\E p \in DOMAIN leaves[r] :
                \E outcome \in {"ok", "null", "throw"} : DownloadSettles(r, p, outcome))
  \/ ENABLED (\E p \in DOMAIN leaves[r] :
                \E throws \in BOOLEAN, primary \in PrimaryAnswers, fallback \in FallbackAnswers :
                  UploadSettles(r, p, throws, primary, fallback))
  \/ ENABLED (\E step \in {"none", "sanitize"}, message \in StepMessages :
                ResolveSettles(r, step, message))
  \/ ENABLED (\E outcome \in Outcomes : CreateSettles(r, outcome))

\* C23: while an image operation of one record is pending, every other
\* record of the same batch that has not reached its outcome can take its
\* next step (its own image operations, then sanitize and create, then the
\* outcome of create), whatever the pending record does; the pending record
\* itself stays in its resolve step, and the batch does not settle.
C23_PendingImageDelaysOwnSlotOnly ==
  pc = "running" =>
    \A r \in BatchIndices(batch) :
      ImagePending(r) =>
        /\ task[r] = "resolve"
        /\ ~BatchSettled(batch)
        /\ \A s \in BatchIndices(batch) \ {r} :
             task[s] \notin TaskDone => CanStep(s)

\* The download of record 0 is pending; record 1 of the same batch was
\* resolved, sanitized and created meanwhile.
C23_Witness ==
  /\ pc = "running"
  /\ batch = 0
  /\ data = Arr(<<RecImage, RecBadRef>>)
  /\ leaves[0][<<Key("image")>>].st = "download"
  /\ task[1] = "ok"
  /\ Len(created[1]) = 1
  /\ results.successful = 1

\* ------------------------------------------------------------------------
\* Properties of the fallback upload's request
\* ------------------------------------------------------------------------
\* axios.post was called by uploadViaAPI.
FallbackCalled == up.pc # "idle" /\ up.fallbackCalls = 1
\* A source of the token is set: it holds a string that is not empty.
IsSet(source) == source # Null /\ source.t = "str" /\ source.v # <<>>

\* C24: the request of the fallback upload carries 'Bearer ' followed by the
\* value of the environment variable when that is set, otherwise by the
\* plugin's configuration value when that is set, and no Authorization
\* header when neither is set (set: holding a non-empty string).
C24_TokenEnvThenConfigThenNone ==
  FallbackCalled =>
    /\ IsSet(up.env) => up.authorization = <<"Bearer ">> \o up.env.v
    /\ (~IsSet(up.env) /\ IsSet(up.config)) => up.authorization = <<"Bearer ">> \o up.config.v
    /\ (~IsSet(up.env) /\ ~IsSet(up.config)) => up.authorization = <<>>

\* Both sources hold a token and the request carries the environment's.
C24_Witness ==
  /\ FallbackCalled
  /\ up.env = Str(<<"E">>)
  /\ up.config = Str(<<"K">>)
  /\ up.authorization = <<"Bearer ", "E">>

\* ------------------------------------------------------------------------
\* Properties of isImageUrl
\* ------------------------------------------------------------------------
\* s is a valid absolute URL: a scheme followed by an authority.
ValidUrl(s) == Len(s) >= 2 /\ s[1] \in {"https:", "http:", "HTTP:"} /\ s[2] \in {"//ex.com", "//x"}
\* The query of s starts at position q (Len(s) + 1 without a query).
QueryAt(s, q) ==
  /\ q \in 1..(Len(s) + 1)
  /\ q <= Len(s) => s[q] = "?"
  /\ \A i \in 1..(q - 1) : s[i] # "?"
\* The path of s ends with token e: e stands last before the query, at or
\* after a token beginning with a slash that follows the authority.
PathEndsWith(s, e) ==
  \E q \in 1..(Len(s) + 1) :
    /\ QueryAt(s, q)
    /\ q - 1 >= 3
    /\ s[q - 1] = e
    /\ \E i \in 3..(q - 1) : s[i] \in {"/a", "/p", "/doc", "/notes", "//x", "//ex.com"}
\* Token e is one of the extensions, in some case.
ImageExtension(e) ==
  e \in {".jpg", ".jpeg", ".png", ".gif", ".webp", ".svg", ".bmp", ".JPG", ".PNG"}
\* An image extension stands in the query of s.
ExtensionInQuery(s) ==
  \E q \in 1..Len(s) : QueryAt(s, q) /\ \E i \in (q + 1)..Len(s) : ImageExtension(s[i])

\* C25: isImageUrl(u) is false for every string that is not a valid
\* absolute URL; for a valid URL it is true exactly when the path component
\* ends, in any case, with one of .jpg .jpeg .png .gif .webp .svg .bmp; an
\* image extension that stands only in the query does not count.
C25_ImageUrlByPathExtension ==
  cl.pc = "returned" =>
    /\ ~ValidUrl(cl.url) => ~cl.ret
    /\ ValidUrl(cl.url) => (cl.ret <=> \E e \in UrlTokens : ImageExtension(e) /\ PathEndsWith(cl.url, e))
    /\ (ExtensionInQuery(cl.url) /\ ~\E e \in UrlTokens : ImageExtension(e) /\ PathEndsWith(cl.url, e))
         => ~cl.ret

\* HTTP://x/a.JPG is an image URL; so says the call.
C25_Witness ==
  /\ cl.pc = "returned"
  /\ cl.url = <<"HTTP:", "//x", "/a", ".JPG">>
  /\ cl.ret

\* https://x?.png carries the extension in its query only: not an image URL.
C25_WitnessQuery ==
  /\ cl.pc = "returned"
  /\ cl.url = <<"https:", "//x", "?", ".png">>
  /\ ExtensionInQuery(cl.url)
  /\ ~cl.ret

\* ------------------------------------------------------------------------
\* Properties of the import routes
\* ------------------------------------------------------------------------
Answered == http.pc = "answered"
\* The records the request carries, when it carries an array of them.
CarriesArray ==
  CASE http.handler = "importData" -> http.input # Null /\ http.input.t = "arr"
    [] http.handler = "importJsonData" ->
         /\ http.input.t = "str"
         /\ JSONparse(http.input.v).ok
         /\ JSONparse(http.input.v).v.t = "arr"
    [] OTHER ->
         /\ http.input.state = "ok"
         /\ JSONparse(http.input.text).ok
         /\ JSONparse(http.input.text).v.t = "arr"
\* The request carries a text that is not JSON.
CarriesUnparsable ==
  CASE http.handler = "importData" -> FALSE
    [] http.handler = "importJsonData" ->
         http.input.t = "str" /\ http.input.v # <<>> /\ ~JSONparse(http.input.v).ok
    [] OTHER -> http.input.state = "ok" /\ ~JSONparse(http.input.text).ok
LastOf(message) == message[Len(message)]

\* C26: each of the four handlers answers 200 with {success: true, result}
\* (the file routes add file and recordsCount), result being the
\* ImportResult, exactly when importData returned one, also when failed > 0;
\* it answers 400 with a message otherwise: 'Content type parameter is
\* required' without a content type, the handler's own message for an input
\* that is not an array or not JSON, and the message importData threw for an
\* unknown schema; it never answers success without a result.
C26_SuccessIffResult ==
  Answered =>
    /\ http.answer.status \in {200, 400}
    /\ http.answer.status = 200 <=> pc = "returned"
    /\ http.answer.status = 200 =>
         /\ http.answer.body.success
         /\ http.answer.body.result = results
         /\ results.contentType = http.contentType
         /\ results.totalRecords = results.successful + results.failed
    /\ http.answer.status = 400 => http.answer.message # <<>> /\ LastOf(http.answer.message) # ""
    /\ http.contentType = "" =>
         http.answer = badRequest(<<"Content type parameter is required">>)
    /\ (http.contentType # "" /\ CarriesUnparsable) =>
         /\ http.answer.status = 400
         /\ http.answer.message[1] \in {"Invalid JSON: ", "Invalid JSON in file: "}
    /\ (http.contentType # "" /\ ~CarriesArray /\ ~CarriesUnparsable) =>
         /\ http.answer.status = 400
         /\ pc = "idle"
    /\ (http.contentType \notin {"", "article"} /\ CarriesArray) =>
         /\ http.answer.status = 400
         /\ LastOf(http.answer.message) = "Content type not found"
    /\ (http.contentType = "article" /\ CarriesArray) => http.answer.status = 200

\* An uploaded file of two records, one of which failed: the answer is the
\* success envelope with the whole result.
C26_Witness ==
  /\ Answered
  /\ http.handler = "handleFileUpload"
  /\ http.answer.status = 200
  /\ http.answer.body.result.failed = 1
  /\ http.answer.body.result.successful = 1
  /\ Len(http.answer.body.result.errors) = 1

\* ------------------------------------------------------------------------
\* Properties of the order of a record's steps
\* ------------------------------------------------------------------------
\* entityService.create is called for record r in this step.
CreateCalled(r) == created'[r] # created[r]

\* C27: every payload passed to entityService.create is
\* sanitize(resolve(record)) for its record, resolve(record) being what
\* processObjectForImages returned with the files its uploads produced; and
\* create is called for a record only in the step in which its resolver has
\* returned (every image operation of the record has settled), with the
\* sanitized value of what the resolver returned in that step.
C27_PayloadIsSanitizedResolved ==
  /\ [](\A r \in Indices : \A c \in CallsFor(r) :
          /\ processedRecord[r] = processObjectForImages(Record(r), Uploaded(r))
          /\ created[r][c] = sanitizeRecordBeforeCreate(processedRecord[r])
          /\ \A p \in DOMAIN leaves[r] : leaves[r][p].st \in Terminal)
  /\ [][\A r \in Indices :
          CreateCalled(r) =>
            /\ task[r] = "resolve" /\ task'[r] = "create"
            /\ \A p \in DOMAIN leaves[r] : leaves[r][p].st \in Terminal
            /\ processedRecord[r] = Null
            /\ processedRecord'[r] = processObjectForImages(Record(r), Uploaded(r))
            /\ created'[r] = <<sanitizeRecordBeforeCreate(processedRecord'[r])>>]_vars

\* The image became a reference and the broken reference was removed: the
\* payload is neither the record, nor the resolved record, nor the
\* sanitized record.
C27_Witness ==
  /\ data = Arr(<<RecMixed>>)
  /\ created[0] = <<Obj([image |-> MediaReference(42)])>>
  /\ processedRecord[0] = Obj([image |-> MediaReference(42), media |-> Obj([connect |-> Arr(<<>>)])])
  /\ sanitizeRecordBeforeCreate(Record(0)) = Obj([image |-> Str(IMG1)])

\* An image operation of record r has been started and has not settled, or
\* has yet to be started.
Unfinished(r) == {p \in DOMAIN leaves[r] : leaves[r][p].st \notin Terminal}
\* The task of record r is past its await of processObjectForImages.
PastResolve(r) == task[r] \in {"create", "ok", "failed"}

\* C28: when processObjectForImages has returned for a record, every
\* download and upload it started has settled, also those of the elements
\* of an array, which run concurrently, and none is left to start; the task
\* of a record leaves its resolve step, for sanitize and create, only in a
\* state where no image operation of the record is pending, and none
\* starts or settles afterwards.
C28_NoImagePendingAfterResolve ==
  /\ [](\A r \in Indices : PastResolve(r) => Unfinished(r) = {})
  /\ [][\A r \in Indices :
          /\ (task[r] = "resolve" /\ task'[r] # "resolve") => Unfinished(r) = {}
          /\ PastResolve(r) => leaves'[r] = leaves[r]]_vars

\* The two elements of gallery were resolved side by side: the download of
\* the first failed, the second was uploaded, and the record was offered to
\* create once both had settled.
C28_Witness ==
  /\ data = Arr(<<RecTwins>>)
  /\ task[0] = "create"
  /\ leaves[0][<<Key("gallery"), Idx(1), Key("image")>>].st = "kept"
  /\ leaves[0][<<Key("gallery"), Idx(1), Key("image")>>].uploads = 0
  /\ leaves[0][<<Key("gallery"), Idx(2), Key("image")>>].st = "done"
  /\ downloads = 2
  /\ uploads = 1

\* ------------------------------------------------------------------------
\* Properties of the counters while importData runs
\* ------------------------------------------------------------------------
\* The records that have reached their outcome.
Settled == {r \in Indices : task[r] \in TaskDone}

\* C29: at every moment of importData, under every interleaving of the
\* tasks, successful counts the records that succeeded and failed those
\* that failed, so that successful + failed is the number of records that
\* have reached their outcome and never exceeds totalRecords; errors has
\* one entry per failed record; and a step never lowers a counter, never
\* raises the two by more than one together, and only appends to errors.
C29_CountersTrackOutcomes ==
  /\ [](pc \in {"running", "returned"} =>
          /\ results.successful = Cardinality({r \in Indices : task[r] = "ok"})
          /\ results.failed = Cardinality({r \in Indices : task[r] = "failed"})
          /\ results.successful + results.failed = Cardinality(Settled)
          /\ Len(results.errors) = results.failed
          /\ \A r \in Indices : Cardinality(EntriesFor(r)) = (IF task[r] = "failed" THEN 1 ELSE 0)
          /\ results.successful + results.failed <= results.totalRecords
          /\ results.totalRecords = N)
  /\ [][/\ results'.successful >= results.successful
        /\ results'.failed >= results.failed
        /\ (results'.successful + results'.failed) - (results.successful + results.failed) \in {0, 1}
        /\ Len(results'.errors) >= Len(results.errors)
        /\ SubSeq(results'.errors, 1, Len(results.errors)) = results.errors]_vars

\* Record 1 failed and was counted while record 0 of the same batch and the
\* record of the next batch have not reached their outcome.
C29_Witness ==
  /\ pc = "running"
  /\ N = 3
  /\ task[0] = "create"
  /\ task[1] = "failed"
  /\ task[2] = "idle"
  /\ results.successful = 0
  /\ results.failed = 1
  /\ results.errors[1].index = 1

\* The records for which a call of entityService.create has returned
\* without throwing.
CreateCompleted == {r \in Indices : created[r] # <<>> /\ task[r] = "ok"}

\* C30: entityService.create is called at most once for each input record,
\* and not at all for a record whose resolve or sanitize step threw; a
\* record is in its create step or counted successful only after its one
\* call; and when importData returns, successful is the number of create
\* calls that returned without throwing.
C30_CreateAtMostOnce ==
  /\ \A r \in Indices :
       /\ Len(created[r]) <= 1
       /\ thrown[r].step \in {"resolve", "sanitize"} => created[r] = <<>>
       /\ task[r] \in {"idle", "resolve"} => created[r] = <<>>
       /\ (task[r] \in {"create", "ok"} \/ thrown[r].step = "persist") => Len(created[r]) = 1
  /\ pc = "returned" =>
       /\ results.successful = Cardinality(CreateCompleted)
       /\ results.failed =
            Cardinality({r \in Indices : created[r] = <<>>})
              + Cardinality({r \in Indices : created[r] # <<>> /\ thrown[r].step = "persist"})

\* Of three records, one was created, one threw in sanitize and was never
\* passed to create, and the call of create for the third threw.
C30_Witness ==
  /\ pc = "returned"
  /\ N = 3
  /\ thrown[0].step = "persist" /\ Len(created[0]) = 1
  /\ thrown[1].step = "sanitize" /\ created[1] = <<>>
  /\ task[2] = "ok" /\ Len(created[2]) = 1
  /\ results.successful = 1
  /\ results.failed = 2

\* ------------------------------------------------------------------------
\* Properties of the references the resolver writes
\* ------------------------------------------------------------------------
\* The image positions of record r whose upload returned a file.
DoneLeaves(r) == {p \in DOMAIN leaves[r] : leaves[r][p].st = "done"}
\* Position p of v lies inside a property that the sanitizer removes: a
\* value on the way to p is an object whose connect is an empty list, a
\* list with a falsy element, or not a list.
InsideBroken(v, p) ==
  \E k \in 1..(Len(p) - 1) :
    LET x == ValueAt(v, SubSeq(p, 1, k))
    IN  Head(SubSeq(p, k, k)).i = 0 /\ (BrokenList(x) \/ ConnectNotList(x))
\* x is {connect: [id]} for a truthy id.
IsReferenceTo(x, id) ==
  /\ id > 0
  /\ x.t = "obj"
  /\ DOMAIN x.v = {"connect"}
  /\ x.v["connect"].t = "arr"
  /\ x.v["connect"].v = <<Num(id)>>

\* C31 as amended: every reference the resolver writes is {connect: [id]}
\* with exactly one element, the truthy id the uploader returned; an upload
\* that returned no file or no id leaves the original value; the sanitizer
\* passes such a reference on to the payload unchanged, unless the
\* reference lies inside a property that is itself an empty or malformed
\* reference, which the sanitizer removes with everything in it.
C31_ReferenceHoldsUploadedId ==
  \A r \in Indices :
    Resolved(r) =>
      /\ \A p \in DoneLeaves(r) :
           /\ leaves[r][p].id \in (PrimaryAnswers \cup FallbackAnswers)
           /\ IsReferenceTo(ValueAt(processedRecord[r], p), leaves[r][p].id)
           /\ \A c \in CallsFor(r) :
                IF InsideBroken(processedRecord[r], p)
                  THEN ~HasPosition(created[r][c], p)
                  ELSE /\ HasPosition(created[r][c], p)
                       /\ ValueAt(created[r][c], p) = ValueAt(processedRecord[r], p)
      /\ \A p \in DOMAIN leaves[r] \ DoneLeaves(r) :
           /\ leaves[r][p].id = 0
           /\ ValueAt(processedRecord[r], p) = ValueAt(Record(r), p)

\* C31 as stated: the sanitizer never removes a reference created by the
\* resolver.
C31_ReferenceNeverRemoved ==
  \A r \in Indices : \A c \in CallsFor(r) : \A p \in DoneLeaves(r) :
    /\ HasPosition(created[r][c], p)
    /\ IsReferenceTo(ValueAt(created[r][c], p), leaves[r][p].id)

\* The image inside {connect: [], image: ...} was uploaded and became a
\* reference; the sanitizer removed thumb, and the reference with it.
C31_Witness ==
  /\ data = Arr(<<RecInside>>)
  /\ pc = "returned"
  /\ leaves[0][<<Key("thumb"), Key("image")>>].id = 42
  /\ processedRecord[0] =
       Obj([thumb |-> Obj([connect |-> Arr(<<>>), image |-> Obj([connect |-> Arr(<<Num(42)>>)])])])
  /\ created[0] = <<Obj(<<>>)>>

\* The upload answered without an id: the image stays a URL in the payload.
C31_WitnessNoId ==
  /\ data = Arr(<<RecMixed>>)
  /\ pc = "returned"
  /\ leaves[0][<<Key("image")>>].st = "kept"
  /\ leaves[0][<<Key("image")>>].uploads = 1
  /\ leaves[0][<<Key("image")>>].why = "null"
  /\ created[0] = <<Obj([image |-> Str(IMG1)])>>

\* ------------------------------------------------------------------------
\* Termination of importData
\* ------------------------------------------------------------------------
\* importData was called with a content type that has a schema and an array.
ValidCall == contentType # "" /\ data.t = "arr" /\ Uid(contentType) \in contentTypes

\* C32: when every download, upload and create call that is started
\* settles, a call of importData with valid arguments eventually returns,
\* and when it has returned every input record has reached its outcome
\* (no record is idle or in flight), every batch was the current batch in
\* turn, and the result counts every record.
C32_EventuallyReturns ==
  /\ ValidCall => <>(pc = "returned")
  /\ [](pc = "returned" =>
          /\ \A r \in Indices : task[r] \in TaskDone
          /\ N > 0 => batch = ((N - 1) \div batchSize)
          /\ results.successful + results.failed = N)
  /\ [][batch' \in {batch, batch + 1}]_vars

\* Three records in two batches have all reached their outcome and
\* importData has returned.
C32_Witness ==
  /\ pc = "returned"
  /\ N = 3
  /\ batch = 1
  /\ \A r \in Indices : task[r] \in TaskDone
  /\ ImageLeaves(data.v[3], <<>>) # {}
  /\ downloads = 1

\* ------------------------------------------------------------------------
\* The input of importData
\* ------------------------------------------------------------------------
\* C33: importData never changes its input: no step of the import changes
\* the length of the caller's array or any record of it, at any depth, and
\* at every position where the resolver downloaded or uploaded, the caller's
\* record still holds the image value, also when the resolver returned a
\* media reference there and when the sanitizer removed keys from the
\* payload.
C33_InputNeverMutated ==
  /\ [][/\ data'.t = data.t
        /\ N' = N
        /\ \A r \in Indices : data'.v[r + 1] = Record(r)]_vars
  /\ [](\A r \in Indices : \A p \in DOMAIN leaves[r] :
          /\ HasPosition(Record(r), p)
          /\ IsImageLeaf(ValueAt(Record(r), p)))

\* {image: "https://ex.com/p.png", media: {connect: []}} was imported: the
\* resolver returned {image: {connect: [42]}, media: {connect: []}}, the
\* payload is {image: {connect: [42]}}, and the caller's record is as it was.
C33_Witness ==
  /\ pc = "returned"
  /\ data = Arr(<<RecMixed>>)
  /\ task[0] = "ok"
  /\ processedRecord[0] = Obj([image |-> MediaReference(42),
                               media |-> Obj([connect |-> Arr(<<>>)])])
  /\ created[0] = <<Obj([image |-> MediaReference(42)])>>

\* {cover: {url: "HTTP://x/a.JPG", media: {connect: []}}} was imported and
\* the upload failed: the resolver returned the caller's own cover object,
\* the sanitizer removed media from its copy of it, and the caller's record
\* is as it was.
C33_WitnessKept ==
  /\ pc = "returned"
  /\ data = Arr(<<RecShared>>)
  /\ processedRecord[0] = RecShared
  /\ created[0] = <<Obj([cover |-> Obj([url |-> Str(IMG2)])])>>
====
